---- MODULE Spec2Model ----
(***************************************************************************)
(* Model of the wikidata-constraints evaluation core:                      *)
(*   base.py      Scope, Status, VersionContext, Context, scoring defaults *)
(*   builtin.py   built-in constraint predicates                           *)
(*   custom.py    HasValidReference, LargeChange, NoSelfLink, ...          *)
(*   evaluator.py Constraint, Result, ConstraintsStore, ConstraintEvaluator*)
(*   utils.py     cmp_key, in_values                                       *)
(* Python exceptions are modelled as outcome values; a value that Python   *)
(* represents by None is a record of the same shape whose id is "None".    *)
(***************************************************************************)
EXTENDS Integers, Sequences, FiniteSets, TLC

VARIABLES
    pages,      \* property id -> property page (datatype, P2302 declarations)
    old_rev,    \* the two revisions handed to the evaluator
    new_rev,
    cache,      \* ConstraintsStore._cache: property id -> list of Constraint
    result,     \* the Result object of the running call: [score, evaluated]
    dispatched, \* log of (constraint, scope, handler) dispatches of the call
    violated,   \* list returned by evaluate_entity
    call,       \* the call made: [op, args...]
    outcome,    \* "idle" | "returned" | "TypeError"
    sparql,     \* the SPARQL endpoint: "up", or "down" (every query fails)
    session,    \* what a sequence of store calls did: loads, queries, yields
    subject     \* the SubjectType predicates in use and their caches

vars == <<pages, old_rev, new_rev, cache, result, dispatched, violated, call,
          outcome, sparql, session, subject>>

None == "None"

-----------------------------------------------------------------------------
(* Bounds of the model                                                     *)

MaxQuals == 1       \* qualifiers per qualifier property of the first claim
MaxRefs == 1        \* reference blocks of the first claim
MaxAdds == 3        \* Result.add calls in one Result history

-----------------------------------------------------------------------------
(* base.py: Scope and Status                                               *)

MAIN == "MAIN"
QUALIFIER == "QUALIFIER"
REFERENCE == "REFERENCE"
Scope == {MAIN, QUALIFIER, REFERENCE}

SUGGESTION == 1
REGULAR == 2
MANDATORY == 4
Status == {SUGGESTION, REGULAR, MANDATORY}

-----------------------------------------------------------------------------
(* Generic helpers                                                         *)

Range(s) == {s[i] : i \in 1..Len(s)}

Min(a, b) == IF a < b THEN a ELSE b

Abs(x) == IF x < 0 THEN -x ELSE x

RECURSIVE SumSeq(_)
SumSeq(s) == IF s = <<>> THEN 0 ELSE Head(s) + SumSeq(Tail(s))

RECURSIVE Flatten(_)
Flatten(ss) == IF ss = <<>> THEN <<>> ELSE Head(ss) \o Flatten(Tail(ss))

SeqsUpTo(S, n) == UNION {[1..k -> S] : k \in 0..n}

-----------------------------------------------------------------------------
(* Value model: targets, claims, revisions                                 *)

EntityId == "Q2"                 \* the entity whose revisions are evaluated
\* iteration order of entity.claims
MainProps == <<"P1", "P2", "P3", "P4", "P5">>
QualProps == <<"P2">>            \* iteration order of claim.qualifiers
RefProps == {"P143", "P248"}
AllProps == Range(MainProps) \cup Range(QualProps) \cup RefProps

Item(q) == [kind |-> "item", id |-> q, amount |-> 0]
Quantity(n) == [kind |-> "quantity", id |-> "", amount |-> n]
NoTarget == [kind |-> "none", id |-> "", amount |-> 0]

NoQuals == [p \in Range(QualProps) |-> <<>>]

MkClaim(id, p, st, tgt, quals, srcs, isq) ==
    [snak |-> id, prop |-> p, snaktype |-> st, target |-> tgt,
     qualifiers |-> quals, sources |-> srcs, isQualifier |-> isq,
     isReference |-> FALSE, on_item |-> EntityId, rank |-> "normal"]

NoClaim == MkClaim(None, None, None, NoTarget, NoQuals, <<>>, FALSE)

IsNone(claim) == claim.snak = None

Qual(p, tgt) == MkClaim("", p, "value", tgt, NoQuals, <<>>, TRUE)

\* keys of the claim.qualifiers mapping
QualKeys(claim) == {p \in Range(QualProps) : claim.qualifiers[p] # <<>>}

\* keys of the entity.claims mapping
ClaimKeys(rev) == {p \in Range(MainProps) : rev.claims[p] # <<>>}

-----------------------------------------------------------------------------
(* Constraint predicates (the type field of a Constraint) and Constraint   *)

\* given = FALSE stands for an optional values argument left at None
MkType(name, values, given, prop) ==
    [name |-> name, values |-> values, given |-> given, prop |-> prop]

NoType == MkType(None, {}, FALSE, None)

OneOf(values) == MkType("OneOf", values, TRUE, None)
NoneOf(values) == MkType("NoneOf", values, TRUE, None)
Units(units) == MkType("Units", units, TRUE, None)
PropertyScope(values) == MkType("PropertyScope", values, TRUE, None)
Qualifiers(qualifiers) == MkType("Qualifiers", qualifiers, TRUE, None)
RequiredQualifiers(qualifiers) == MkType("RequiredQualifiers", qualifiers, TRUE, None)
LabelInLanguage(langs) == MkType("LabelInLanguage", langs, TRUE, None)
DescriptionInLanguage(langs) == MkType("DescriptionInLanguage", langs, TRUE, None)
HasValidReference == MkType("HasValidReference", {}, FALSE, None)
NoLinksToDisambiguation == MkType("NoLinksToDisambiguation", {}, FALSE, None)
NoSelfLink == MkType("NoSelfLink", {}, FALSE, None)
LargeChange == MkType("LargeChange", {}, FALSE, None)

\* the two SPARQL-backed predicates keep the relation (a list of properties)
\* and the classes they were built with
SubjectType(relation, classes) ==
    MkType("SubjectType", classes, TRUE, None) @@ [relation |-> relation]
ValueType(relation, classes) ==
    MkType("ValueType", classes, TRUE, None) @@ [relation |-> relation]

\* subclasses of ItemConstraintType; every other predicate of the model is a
\* ClaimConstraintType
ItemConstraintTypes ==
    {"SubjectType", "ItemRequires", "ConflictsWith", "LabelInLanguage",
     "DescriptionInLanguage"}

IsClaimConstraintType(type) == type.name \notin ItemConstraintTypes

\* the scopes property of a predicate
TypeScopes(type) ==
    IF type.name \in ItemConstraintTypes THEN {MAIN}
    ELSE IF type.name \in {"HasValidReference", "Qualifiers", "RequiredQualifiers",
                            "Symmetric", "Inverse"} THEN {MAIN}
    ELSE Scope

\* ConstraintType.value_change_needed for every predicate
value_change_never_needed(type) == FALSE

value_change_needed(type) ==
    IF type.name \in ItemConstraintTypes THEN FALSE
    ELSE IF type.name \in {"Qualifiers", "RequiredQualifiers"} THEN FALSE
    ELSE TRUE

MkConstraint(prop, claim_id, type, status, scopes) ==
    [prop |-> prop, claim_id |-> claim_id, type |-> type, status |-> status,
     scopes |-> scopes]

may_check(constr, scope) ==
    scope \in constr.scopes /\ scope \in TypeScopes(constr.type)

-----------------------------------------------------------------------------
(* Property pages: the P2302 declarations load_constraints parses          *)

\* a qualifier of a declaration: a value snak with an id, or a non-value snak
DQ(id) == [snaktype |-> "value", id |-> id]
DQNoValue == [snaktype |-> "novalue", id |-> None]

HasTarget(qual) == qual.snaktype = "value"

MkDecl(snak, target, rank, p2305, p2306, p2316, p4680, p5314, p424) ==
    [snak |-> snak, target |-> target, rank |-> rank, P2305 |-> p2305,
     P2306 |-> p2306, P2316 |-> p2316, P4680 |-> p4680, P5314 |-> p5314,
     P424 |-> p424, P2308 |-> <<>>, P2309 |-> <<>>]

\* a declaration of a type constraint: its classes (P2308) and relation (P2309)
MkTypeDecl(snak, target, rank, p2308, p2309) ==
    [MkDecl(snak, target, rank, <<>>, <<>>, <<>>, <<>>, <<>>, <<>>)
        EXCEPT !.P2308 = p2308, !.P2309 = p2309]

MkPage(id, type, decls) == [id |-> id, type |-> type, decls |-> decls]

_get_values(qualifiers) ==
    {IF qualifiers[i].snaktype # "value" THEN qualifiers[i].snaktype
     ELSE qualifiers[i].id : i \in 1..Len(qualifiers)}

\* first qualifier of the list that has a target, or 0
FirstWithTarget(qualifiers) ==
    IF \E i \in 1..Len(qualifiers) : HasTarget(qualifiers[i])
    THEN CHOOSE i \in 1..Len(qualifiers) :
            /\ HasTarget(qualifiers[i])
            /\ \A j \in 1..(i - 1) : ~HasTarget(qualifiers[j])
    ELSE 0

_get_pv_constraint(name, decl) ==
    LET i == FirstWithTarget(decl.P2306) IN
    IF i = 0 THEN NoType
    ELSE IF decl.P2305 = <<>> THEN MkType(name, {}, FALSE, decl.P2306[i].id)
    ELSE MkType(name, _get_values(decl.P2305), TRUE, decl.P2306[i].id)

PropertyScopeIds == [Q54828448 |-> MAIN, Q54828449 |-> QUALIFIER, Q54828450 |-> REFERENCE]
ConstraintScopeIds == [Q46466787 |-> MAIN, Q46466783 |-> QUALIFIER, Q46466805 |-> REFERENCE]

MappedScopes(qualifiers, mapping) ==
    {mapping[qualifiers[i].id] :
        i \in {j \in 1..Len(qualifiers) :
                 HasTarget(qualifiers[j]) /\ qualifiers[j].id \in DOMAIN mapping}}

TargetIds(qualifiers) ==
    {qualifiers[i].id : i \in {j \in 1..Len(qualifiers) : HasTarget(qualifiers[j])}}

\* lines 132-136
val_to_relation ==
    [Q21503252 |-> <<"P31">>, Q21514624 |-> <<"P279">>,
     Q30208840 |-> <<"P31", "P279">>]

\* lines 269-294: the first P2309 qualifier naming a known relation, or 0
FirstRelation(qualifiers) ==
    IF \E i \in 1..Len(qualifiers) :
            HasTarget(qualifiers[i]) /\ qualifiers[i].id \in DOMAIN val_to_relation
    THEN CHOOSE i \in 1..Len(qualifiers) :
            /\ HasTarget(qualifiers[i])
            /\ qualifiers[i].id \in DOMAIN val_to_relation
            /\ \A j \in 1..(i - 1) :
                    ~(/\ HasTarget(qualifiers[j])
                      /\ qualifiers[j].id \in DOMAIN val_to_relation)
    ELSE 0

\* the predicate one declaration selects (lines 149-316), NoType when skipped
DeclType(decl) ==
    IF decl.target \in {"Q21510859", "Q52558054", "Q21514353"} /\ decl.P2305 # <<>>
    THEN (IF decl.target = "Q21510859" THEN OneOf(_get_values(decl.P2305))
          ELSE IF decl.target = "Q52558054" THEN NoneOf(_get_values(decl.P2305))
          ELSE Units(_get_values(decl.P2305)))
    ELSE IF decl.target \in {"Q108139345", "Q111204896"}
    THEN (IF TargetIds(decl.P424) = {} THEN NoType
          ELSE IF decl.target = "Q108139345" THEN LabelInLanguage(TargetIds(decl.P424))
          ELSE DescriptionInLanguage(TargetIds(decl.P424)))
    ELSE IF decl.target = "Q21503247" THEN _get_pv_constraint("ItemRequires", decl)
    ELSE IF decl.target = "Q21510864" THEN _get_pv_constraint("ValueRequires", decl)
    ELSE IF decl.target = "Q21502838" THEN _get_pv_constraint("ConflictsWith", decl)
    ELSE IF decl.target \in {"Q21510851", "Q21510856"}
    THEN (IF _get_values(decl.P2306) = {} THEN NoType
          ELSE IF decl.target = "Q21510851" THEN Qualifiers(_get_values(decl.P2306))
          ELSE RequiredQualifiers(_get_values(decl.P2306)))
    ELSE IF decl.target = "Q53869507"
    THEN (IF MappedScopes(decl.P5314, PropertyScopeIds) = {} THEN NoType
          ELSE PropertyScope(MappedScopes(decl.P5314, PropertyScopeIds)))
    ELSE IF decl.target \in {"Q21510865", "Q21503250"}
    THEN (IF _get_values(decl.P2308) = {} \/ FirstRelation(decl.P2309) = 0
          THEN NoType
          ELSE IF decl.target = "Q21510865"
          THEN ValueType(val_to_relation[decl.P2309[FirstRelation(decl.P2309)].id],
                         _get_values(decl.P2308))
          ELSE SubjectType(val_to_relation[decl.P2309[FirstRelation(decl.P2309)].id],
                           _get_values(decl.P2308)))
    ELSE NoType

\* lines 321-329: the first P2316 qualifier naming a known status decides
DeclStatus(decl) ==
    LET known == {i \in 1..Len(decl.P2316) :
                    /\ HasTarget(decl.P2316[i])
                    /\ decl.P2316[i].id \in {"Q21502408", "Q62026391"}} IN
    IF known = {} THEN REGULAR
    ELSE LET i == CHOOSE k \in known : \A j \in known : k <= j IN
         IF decl.P2316[i].id = "Q21502408" THEN MANDATORY ELSE SUGGESTION

\* lines 331-342
DeclScopes(decl) ==
    LET scopes == MappedScopes(decl.P4680, ConstraintScopeIds) IN
    IF scopes = {} THEN Scope ELSE scopes

RECURSIVE ParseDecls(_, _)
ParseDecls(id, decls) ==
    IF decls = <<>> THEN <<>>
    ELSE LET Parsed(decl, type) ==
                IF decl.rank = "deprecated" \/ decl.target = None \/ type = NoType
                THEN <<>>
                ELSE <<MkConstraint(id, decl.snak, type, DeclStatus(decl),
                                    DeclScopes(decl))>>
         IN Parsed(Head(decls), DeclType(Head(decls)))
            \o ParseDecls(id, Tail(decls))

\* load_constraints adding LargeChange for every page that is not item-typed
load_constraints_large_change(page) ==
    ParseDecls(page.id, page.decls)
    \o <<MkConstraint(page.id, None, HasValidReference, REGULAR, {MAIN})>>
    \o (IF page.type = "wikibase-item"
        THEN <<MkConstraint(page.id, None, NoLinksToDisambiguation, REGULAR, Scope),
               MkConstraint(page.id, None, NoSelfLink, REGULAR, Scope)>>
        ELSE <<MkConstraint(page.id, None, LargeChange, SUGGESTION, Scope)>>)

\* the list load_constraints stores in the cache for the page
load_constraints(page) ==
    ParseDecls(page.id, page.decls)
    \o <<MkConstraint(page.id, None, HasValidReference, REGULAR, {MAIN})>>
    \o (IF page.type = "wikibase-item"
        THEN <<MkConstraint(page.id, None, NoLinksToDisambiguation, REGULAR, Scope),
               MkConstraint(page.id, None, NoSelfLink, REGULAR, Scope)>>
        ELSE <<>>)
    \o (IF page.type = "quantity"
        THEN <<MkConstraint(page.id, None, LargeChange, SUGGESTION, Scope)>>
        ELSE <<>>)

\* a property page together with the list load_constraints derives from it
\* (the page does not change, so every load of it stores the same list)
Loaded(page) ==
    [id |-> page.id, type |-> page.type, decls |-> page.decls,
     constraints |-> load_constraints(page)]

\* get_constraints: the cached list, loaded first when the key is not cached,
\* then filtered by scope and by predicate class (a set of type names, or
\* "ClaimConstraintType", or None for no filter)
CachedOrLoaded(c, pg, prop) ==
    IF prop \in DOMAIN c THEN c[prop] ELSE pg[prop].constraints

IsInstance(type, filter) ==
    IF filter = {None} THEN TRUE
    ELSE IF filter = {"ClaimConstraintType"} THEN IsClaimConstraintType(type)
    ELSE type.name \in filter

get_constraints(c, pg, prop, filter, scope) ==
    SelectSeq(CachedOrLoaded(c, pg, prop),
              LAMBDA constr : /\ scope # None => may_check(constr, scope)
                              /\ IsInstance(constr.type, filter))

\* the cache after get_constraints was called for every property of props
CacheAfter(c, pg, props) ==
    [p \in DOMAIN c \cup props |-> CachedOrLoaded(c, pg, p)]

-----------------------------------------------------------------------------
(* The entities claim targets resolve to (the Wikibase client's view)      *)

\* Q2 is the evaluated entity itself, Q4 a disambiguation page
TargetEntity(id) ==
    IF id = "Q4" THEN [exists |-> TRUE, P31 |-> {"Q4167410"}]
    ELSE [exists |-> TRUE, P31 |-> {}]

-----------------------------------------------------------------------------
(* base.py: VersionContext and Context                                     *)

VersionContext(rev, parent, claim) == [rev |-> rev, parent |-> parent, claim |-> claim]

new_for_claim(rev, claim) == VersionContext(rev, rev, claim)

for_qualifier(vctx, qual) == VersionContext(vctx.rev, vctx.claim, qual)

\* the dataclass-generated Context.__init__(self, old, new): a call with any
\* other number of positional arguments raises TypeError
Context(args) ==
    IF Len(args) = 2
    THEN [raised |-> None, old |-> args[1], new |-> args[2]]
    ELSE [raised |-> "TypeError", old |-> None, new |-> None]

-----------------------------------------------------------------------------
(* utils.py                                                                *)

cmp_key(claim) == <<claim.snaktype, claim.target>>

in_values(claim, values) ==
    IF claim.snaktype # "value" THEN claim.snaktype \in values
    ELSE claim.target.id \in values

-----------------------------------------------------------------------------
(* builtin.py / custom.py: violates(claim) of the claim-level predicates   *)

BoolToInt(b) == IF b THEN 1 ELSE 0

violates(type, claim) ==
    CASE type.name = "PropertyScope" ->
            IF claim.isQualifier THEN QUALIFIER \notin type.values
            ELSE IF claim.isReference THEN REFERENCE \notin type.values
            ELSE MAIN \notin type.values
      [] type.name = "OneOf" -> ~in_values(claim, type.values)
      [] type.name = "NoneOf" -> in_values(claim, type.values)
      [] type.name = "Units" ->
            claim.target.kind = "quantity" /\ "novalue" \notin type.values
      [] type.name = "Qualifiers" -> QualKeys(claim) \ type.values # {}
      [] type.name = "RequiredQualifiers" -> type.values \ QualKeys(claim) # {}
      [] type.name = "NoSelfLink" ->
            claim.target.kind = "item" /\ claim.target.id = claim.on_item
      [] type.name = "NoLinksToDisambiguation" ->
            /\ claim.target.kind = "item"
            /\ TargetEntity(claim.target.id).exists
            /\ TargetEntity(claim.target.id).P31 \cap {"Q4167410", "Q22808320"} # {}
      [] type.name \in {"HasValidReference", "LargeChange"} -> FALSE

(* builtin.py: satisfied(revision) of the entity-level predicates          *)

AnyInValues(claims, values) ==
    \E i \in 1..Len(claims) : in_values(claims[i], values)

\* satisfied with a ConflictsWith that takes absent values for no conflict
satisfied_without_values(type, revision) ==
    CASE type.name = "ItemRequires" ->
            IF revision.claims[type.prop] = <<>> THEN FALSE
            ELSE IF type.values = {} THEN TRUE
            ELSE AnyInValues(revision.claims[type.prop], type.values)
      [] type.name = "ConflictsWith" ->
            IF revision.claims[type.prop] = <<>> THEN TRUE
            ELSE IF type.values = {} THEN TRUE
            ELSE ~AnyInValues(revision.claims[type.prop], type.values)
      [] type.name = "LabelInLanguage" -> revision.labels \cap type.values # {}
      [] type.name = "DescriptionInLanguage" ->
            revision.descriptions \cap type.values # {}

satisfied(type, revision) ==
    CASE type.name = "ItemRequires" ->
            IF revision.claims[type.prop] = <<>> THEN FALSE
            ELSE IF type.values = {} THEN TRUE
            ELSE AnyInValues(revision.claims[type.prop], type.values)
      [] type.name = "ConflictsWith" ->
            IF revision.claims[type.prop] = <<>> THEN TRUE
            ELSE IF type.values = {} THEN FALSE
            ELSE ~AnyInValues(revision.claims[type.prop], type.values)
      [] type.name = "LabelInLanguage" -> revision.labels \cap type.values # {}
      [] type.name = "DescriptionInLanguage" ->
            revision.descriptions \cap type.values # {}

-----------------------------------------------------------------------------
(* custom.py: HasValidReference and LargeChange                            *)

Blacklist == {"P143", "P813", "P887", "P3452", "P4656"}

\* _is_valid_reference asking for a PropertyScope constraint that allows
\* REFERENCE (any over a non-empty list, instead of all over the list)
_is_valid_reference_any(c, pg, reference) ==
    \E i \in 1..Len(reference) :
        /\ reference[i] \notin Blacklist
        /\ LET found == get_constraints(c, pg, reference[i], {"PropertyScope"}, None) IN
           \E k \in 1..Len(found) : REFERENCE \in found[k].type.values

\* a reference block is the sequence of its property ids
_is_valid_reference(c, pg, reference) ==
    \E i \in 1..Len(reference) :
        /\ reference[i] \notin Blacklist
        /\ LET found == get_constraints(c, pg, reference[i], {"PropertyScope"}, None) IN
           \A k \in 1..Len(found) : REFERENCE \in found[k].type.values

_count_valid_references(c, pg, claim) ==
    Cardinality({i \in 1..Len(claim.sources) :
                    _is_valid_reference(c, pg, claim.sources[i])})

\* properties whose constraints _is_valid_reference fetches from the store:
\* the block's properties up to the first one that makes the block valid
BlockPropsFetched(c, pg, reference) ==
    {reference[k] :
        k \in {j \in 1..Len(reference) :
                 /\ reference[j] \notin Blacklist
                 /\ \A m \in 1..(j - 1) :
                       ~_is_valid_reference(c, pg, <<reference[m]>>)}}

RefPropsFetched(c, pg, claim) ==
    UNION {BlockPropsFetched(c, pg, claim.sources[i]) : i \in 1..Len(claim.sources)}

\* decimal logarithm of the amounts of the model, all powers of ten
Log10(amount) ==
    CASE Abs(amount) = 1 -> 0
      [] Abs(amount) = 10 -> 1
      [] Abs(amount) = 100 -> 2

LargeChangeUpdate(old, new) ==
    IF /\ old.kind = "quantity" /\ new.kind = "quantity"
       /\ old.amount # 0 /\ new.amount # 0
    THEN Abs(Log10(old.amount) - Log10(new.amount))
    ELSE 0

-----------------------------------------------------------------------------
(* Scores of a predicate for a context (base.py defaults and overrides)    *)

\* score_for_addition with HasValidReference counting upwards
score_for_addition_counting_up(c, pg, type, context) ==
    CASE type.name = "HasValidReference" ->
            _count_valid_references(c, pg, context.new.claim)
      [] type.name = "LargeChange" -> 0
      [] type.name \in ItemConstraintTypes ->
            BoolToInt(~satisfied(type, context.new.rev))
      [] OTHER -> BoolToInt(violates(type, context.new.claim))

score_for_addition(c, pg, type, context) ==
    CASE type.name = "HasValidReference" ->
            -_count_valid_references(c, pg, context.new.claim)
      [] type.name = "LargeChange" -> 0
      [] type.name \in ItemConstraintTypes ->
            BoolToInt(~satisfied(type, context.new.rev))
      [] OTHER -> BoolToInt(violates(type, context.new.claim))

score_for_removal(c, pg, type, context) ==
    CASE type.name = "HasValidReference" ->
            _count_valid_references(c, pg, context.old.claim)
      [] type.name = "LargeChange" -> 0
      [] type.name \in ItemConstraintTypes ->
            -BoolToInt(~satisfied(type, context.old.rev))
      [] OTHER -> -BoolToInt(violates(type, context.old.claim))

score_for_update(c, pg, type, context) ==
    CASE type.name = "HasValidReference" ->
            IF /\ cmp_key(context.old.claim) # cmp_key(context.new.claim)
               /\ context.old.claim.sources = context.new.claim.sources
            THEN _count_valid_references(c, pg, context.old.claim)
            ELSE _count_valid_references(c, pg, context.old.claim)
                 - _count_valid_references(c, pg, context.new.claim)
      [] type.name = "LargeChange" ->
            LargeChangeUpdate(context.old.claim.target, context.new.claim.target)
      [] type.name = "PropertyScope" -> 0
      [] type.name \in ItemConstraintTypes ->
            BoolToInt(~satisfied(type, context.new.rev))
            - BoolToInt(~satisfied(type, context.old.rev))
      [] OTHER -> BoolToInt(violates(type, context.new.claim))
                  - BoolToInt(violates(type, context.old.claim))

-----------------------------------------------------------------------------
(* evaluator.py: Result and the Constraint handlers                        *)

NewResult == [score |-> 0, evaluated |-> <<>>]

Entry(constraint, score) == [constraint |-> constraint, score |-> score]

\* Result.add assigning the score instead of adding it
addOverwriting(res, constraint, score) ==
    [score |-> score,
     evaluated |-> Append(res.evaluated, Entry(constraint, score))]

add(res, constraint, score) ==
    [score |-> res.score + score,
     evaluated |-> Append(res.evaluated, Entry(constraint, score))]

get_violated_constraints(res) ==
    LET kept == SelectSeq(res.evaluated, LAMBDA e : e.score > 0) IN
    [i \in 1..Len(kept) |-> kept[i].constraint]

get_fixed_constraints(res) ==
    LET kept == SelectSeq(res.evaluated, LAMBDA e : e.score < 0) IN
    [i \in 1..Len(kept) |-> kept[i].constraint]

\* handle_addition without the clamp of line 41
AdditionScoreUnclamped(c, pg, constr, context) ==
    score_for_addition(c, pg, constr.type, context)

AdditionScore(c, pg, constr, context) ==
    LET score == score_for_addition(c, pg, constr.type, context) IN
    IF constr.status = SUGGESTION THEN Min(0, score) ELSE score

RemovalScore(c, pg, constr, context) ==
    score_for_removal(c, pg, constr.type, context)

\* handle_update without the status factor of line 51
UpdateScoreUnweighted(c, pg, constr, context) ==
    score_for_update(c, pg, constr.type, context)

UpdateScore(c, pg, constr, context) ==
    score_for_update(c, pg, constr.type, context) * constr.status

handle_addition(c, pg, constr, context, res) ==
    add(res, constr, AdditionScore(c, pg, constr, context))

handle_removal(c, pg, constr, context, res) ==
    add(res, constr, RemovalScore(c, pg, constr, context))

handle_update(c, pg, constr, context, res) ==
    add(res, constr, UpdateScore(c, pg, constr, context))

-----------------------------------------------------------------------------
(* Revisions                                                               *)

MkRevision(claims) ==
    [id |-> EntityId, claims |-> claims, labels |-> {"en"}, descriptions |-> {}]

\* stands for current = None
NoRevision ==
    [id |-> None, claims |-> [p \in Range(MainProps) |-> <<>>], labels |-> {},
     descriptions |-> {}]

\* a same_as that compares the ranks as well (ignore_rank=False)
same_as_with_rank(claim, other, ignore_refs) ==
    /\ claim.prop = other.prop
    /\ cmp_key(claim) = cmp_key(other)
    /\ claim.rank = other.rank
    /\ claim.qualifiers = other.qualifiers
    /\ (ignore_refs \/ claim.sources = other.sources)

\* Claim.same_as(other, ignore_rank=True, ignore_quals=False, ignore_refs=...)
same_as(claim, other, ignore_refs) ==
    /\ claim.prop = other.prop
    /\ cmp_key(claim) = cmp_key(other)
    /\ claim.qualifiers = other.qualifiers
    /\ (ignore_refs \/ claim.sources = other.sources)

item_has_claim(item, claim) ==
    \E i \in 1..Len(item.claims[claim.prop]) :
        same_as(claim, item.claims[claim.prop][i], TRUE)

\* the claim of the list with the given snak id, or NoClaim
ById(claims, key) ==
    IF \E i \in 1..Len(claims) : claims[i].snak = key
    THEN claims[CHOOSE i \in 1..Len(claims) :
                    /\ claims[i].snak = key
                    /\ \A j \in (i + 1)..Len(claims) : claims[j].snak # key]
    ELSE NoClaim

\* the snak ids of both lists, those of the old list first, without repeats
RECURSIVE Dedup(_)
Dedup(s) ==
    IF s = <<>> THEN <<>>
    ELSE LET rest == Dedup(Tail(s)) IN
         <<Head(s)>> \o SelectSeq(rest, LAMBDA x : x # Head(s))

UnionKeys(old_claims, new_claims) ==
    Dedup([i \in 1..Len(old_claims) |-> old_claims[i].snak]
          \o [i \in 1..Len(new_claims) |-> new_claims[i].snak])

RECURSIVE PropDifferences(_, _, _)
PropDifferences(old_claims, new_claims, keys) ==
    IF keys = <<>> THEN <<>>
    ELSE LET old_claim == ById(old_claims, Head(keys))
             new_claim == ById(new_claims, Head(keys))
         IN (IF IsNone(old_claim) \/ IsNone(new_claim)
                \/ ~same_as(new_claim, old_claim, FALSE)
             THEN <<<<old_claim, new_claim>>>>
             ELSE <<>>)
            \o PropDifferences(old_claims, new_claims, Tail(keys))

\* the atoms in the order of MainProps (Python iterates a set of property ids)
claim_differences(old, new) ==
    Flatten([i \in 1..Len(MainProps) |->
        PropDifferences(old.claims[MainProps[i]], new.claims[MainProps[i]],
                        UnionKeys(old.claims[MainProps[i]], new.claims[MainProps[i]]))])

-----------------------------------------------------------------------------
(* The running evaluation: Result, dispatch log, store fetches, exception  *)

NewEval ==
    [res |-> NewResult, log |-> <<>>, fetched |-> {}, touched |-> {},
     raised |-> None, line |-> 0, queries |-> <<>>]

LogEntry(constr, scope, handler) ==
    [constraint |-> constr, scope |-> scope, handler |-> handler]

\* one step of an evaluation loop: a get_constraints call (kind "fetch"), or a
\* handler call whose context is given (context) or built first (args)
FetchJob(prop) ==
    [kind |-> "fetch", prop |-> prop, constr |-> NoType, handler |-> None,
     scope |-> None, args |-> <<>>, context |-> Context(<<None, None>>), line |-> 0]

HandlerJob(constr, handler, scope, context) ==
    [kind |-> "handler", prop |-> None, constr |-> constr, handler |-> handler,
     scope |-> scope, args |-> <<>>, context |-> context, line |-> 0]

BuildJob(constr, handler, scope, args, line) ==
    [kind |-> "build", prop |-> None, constr |-> constr, handler |-> handler,
     scope |-> scope, args |-> args, context |-> Context(args), line |-> line]

\* the claims whose references the handler of a HasValidReference reads
ClaimsRead(handler, context) ==
    CASE handler = "handle_addition" -> <<context.new.claim>>
      [] handler = "handle_removal" -> <<context.old.claim>>
      [] handler = "handle_update" -> <<context.old.claim, context.new.claim>>

HandlerFetches(c, pg, constr, handler, context) ==
    IF constr.type.name = "HasValidReference"
    THEN UNION {RefPropsFetched(c, pg, ClaimsRead(handler, context)[i]) :
                    i \in 1..Len(ClaimsRead(handler, context))}
    ELSE {}

Handle(c, pg, constr, handler, context, res) ==
    CASE handler = "handle_addition" -> handle_addition(c, pg, constr, context, res)
      [] handler = "handle_removal" -> handle_removal(c, pg, constr, context, res)
      [] handler = "handle_update" -> handle_update(c, pg, constr, context, res)

RunJob(c, pg, E, job) ==
    IF E.raised # None THEN E
    ELSE IF job.kind = "fetch" THEN [E EXCEPT !.fetched = @ \cup {job.prop}]
    ELSE IF job.context.raised # None
    THEN [E EXCEPT !.raised = job.context.raised, !.line = job.line]
    ELSE [E EXCEPT
            !.res = Handle(c, pg, job.constr, job.handler, job.context, @),
            !.log = Append(@, LogEntry(job.constr, job.scope, job.handler)),
            !.fetched = @ \cup HandlerFetches(c, pg, job.constr, job.handler,
                                              job.context)]

RECURSIVE RunJobs(_, _, _, _)
RunJobs(c, pg, E, jobs) ==
    IF jobs = <<>> \/ E.raised # None THEN E
    ELSE RunJobs(c, pg, RunJob(c, pg, E, Head(jobs)), Tail(jobs))

-----------------------------------------------------------------------------
(* evaluator.py: evaluate_atomic_change                                    *)

ContextProp(context) ==
    IF ~IsNone(context.old.claim) THEN context.old.claim.prop
    ELSE context.new.claim.prop

\* lines 465-478, 492-499: the handler calls for the main claim
MainJobs(c, pg, context) ==
    LET constrs == get_constraints(c, pg, ContextProp(context),
                                   {"ClaimConstraintType"}, MAIN)
        handler == IF IsNone(context.new.claim) THEN "handle_removal"
                   ELSE IF IsNone(context.old.claim) THEN "handle_addition"
                   ELSE "handle_update"
        wanted == IF handler # "handle_update" THEN constrs
                  ELSE SelectSeq(constrs, LAMBDA constr :
                          \/ ~value_change_needed(constr.type)
                          \/ cmp_key(context.old.claim) # cmp_key(context.new.claim))
    IN <<FetchJob(ContextProp(context))>>
       \o [i \in 1..Len(wanted) |-> HandlerJob(wanted[i], handler, MAIN, context)]

\* lines 479-487: the qualifiers of an added claim, property by property
AddedQualifierJobs(c, pg, context, prop) ==
    LET values == context.new.claim.qualifiers[prop]
        constrs == get_constraints(c, pg, prop, {"ClaimConstraintType"}, QUALIFIER)
    IN IF values = <<>> THEN <<>>
       ELSE <<FetchJob(prop)>>
            \o Flatten([i \in 1..Len(constrs) |->
                 [j \in 1..Len(values) |->
                    BuildJob(constrs[i], "handle_addition", QUALIFIER,
                             <<context.old.rev, context.new.rev, None, values[j]>>,
                             486)]])

\* lines 513-520: indices of the old and of the new qualifiers that matched
FirstMatch(qual, new_qualifiers) ==
    IF \E j \in 1..Len(new_qualifiers) : cmp_key(qual) = cmp_key(new_qualifiers[j])
    THEN CHOOSE j \in 1..Len(new_qualifiers) :
            /\ cmp_key(qual) = cmp_key(new_qualifiers[j])
            /\ \A k \in 1..(j - 1) : cmp_key(qual) # cmp_key(new_qualifiers[k])
    ELSE 0

old_matched(old_qualifiers, new_qualifiers) ==
    {i \in 1..Len(old_qualifiers) : FirstMatch(old_qualifiers[i], new_qualifiers) # 0}

new_matched(old_qualifiers, new_qualifiers) ==
    {FirstMatch(old_qualifiers[i], new_qualifiers) :
        i \in old_matched(old_qualifiers, new_qualifiers)}

Unmatched(qualifiers, matched) ==
    LET RECURSIVE Keep(_)
        Keep(i) == IF i > Len(qualifiers) THEN <<>>
                   ELSE (IF i \in matched THEN <<>> ELSE <<qualifiers[i]>>)
                        \o Keep(i + 1)
    IN Keep(1)

\* lines 506-527
QualifiersAdded(old_qualifiers, new_qualifiers) ==
    IF old_qualifiers = <<>> THEN new_qualifiers
    ELSE IF new_qualifiers = <<>> THEN <<>>
    ELSE Unmatched(new_qualifiers, new_matched(old_qualifiers, new_qualifiers))

QualifiersRemoved(old_qualifiers, new_qualifiers) ==
    IF old_qualifiers = <<>> THEN <<>>
    ELSE IF new_qualifiers = <<>> THEN old_qualifiers
    ELSE Unmatched(old_qualifiers, old_matched(old_qualifiers, new_qualifiers))

\* lines 529-551: the handler calls of one qualifier property of an update
UpdatedQualifierJobs(c, pg, context, key) ==
    LET added == QualifiersAdded(context.old.claim.qualifiers[key],
                                 context.new.claim.qualifiers[key])
        removed == QualifiersRemoved(context.old.claim.qualifiers[key],
                                     context.new.claim.qualifiers[key])
        constrs == get_constraints(c, pg, key, {"ClaimConstraintType"}, QUALIFIER)
    IN IF added = <<>> /\ removed = <<>> THEN <<>>
       ELSE <<FetchJob(key)>>
            \o Flatten([i \in 1..Len(constrs) |->
                 IF Len(added) = 1 /\ Len(removed) = 1
                 THEN <<BuildJob(constrs[i], "handle_update", QUALIFIER,
                                 <<context.old.rev, context.new.rev,
                                   removed[1], added[1]>>, 537)>>
                 ELSE [j \in 1..Len(added) |->
                         BuildJob(constrs[i], "handle_addition", QUALIFIER,
                                  <<context.old.rev, context.new.rev, None, added[j]>>,
                                  543)]
                      \o [j \in 1..Len(removed) |->
                         BuildJob(constrs[i], "handle_removal", QUALIFIER,
                                  <<context.old.rev, context.new.rev, removed[j], None>>,
                                  548)]])

QualifierJobs(c, pg, context) ==
    IF IsNone(context.new.claim) THEN <<>>
    ELSE IF IsNone(context.old.claim)
    THEN Flatten([i \in 1..Len(QualProps) |->
                    AddedQualifierJobs(c, pg, context, QualProps[i])])
    ELSE Flatten([i \in 1..Len(QualProps) |->
                    UpdatedQualifierJobs(c, pg, context, QualProps[i])])

evaluate_atomic_change(c, pg, context, E) ==
    RunJobs(c, pg, E, MainJobs(c, pg, context) \o QualifierJobs(c, pg, context))

-----------------------------------------------------------------------------
(* evaluator.py: ConstraintsStore.get_item_constraints                     *)

PropOrder == <<"P1", "P2", "P3", "P4", "P5", "P6", "P143", "P248">>

\* the members of a set of property ids, in PropOrder
InOrder(props) == SelectSeq(PropOrder, LAMBDA p : p \in props)

ItemVariants ==
    <<[type |-> "ItemRequires", item_id |-> "Q21503247", require |-> {}],
      [type |-> "ConflictsWith", item_id |-> "Q21502838", require |-> {}],
      [type |-> "SubjectType", item_id |-> "Q21510865", require |-> {"P31", "P279"}],
      [type |-> "LabelInLanguage", item_id |-> "Q108139345", require |-> {}],
      [type |-> "DescriptionInLanguage", item_id |-> "Q111204896", require |-> {}]>>

\* answer of the discovery query of lines 408-421 over the property pages;
\* nothing when the endpoint fails (the error is logged, lines 425-428)
SparqlItems(pg, left, variant, changed) ==
    IF sparql = "down" THEN {}
    ELSE IF variant.require # {}
    THEN {p \in left : \E i \in 1..Len(pg[p].decls) :
                          /\ pg[p].decls[i].target = variant.item_id
                          /\ pg[p].decls[i].rank # "deprecated"}
    ELSE {p \in left : \E i \in 1..Len(pg[p].decls) :
                          /\ pg[p].decls[i].target = variant.item_id
                          /\ TargetIds(pg[p].decls[i].P2306) \cap changed # {}}

\* one turn of the loop of line 386; st = [cached, out, queries]
ItemVariantStep(c, pg, st, props, changed, variant) ==
    IF variant.require # {} /\ changed \cap variant.require = {} THEN st
    ELSE LET uncached == props \ st.cached
             loaded == IF Cardinality(uncached) < 5
                       THEN InOrder(props \cap st.cached) \o InOrder(uncached)
                       ELSE InOrder(props \cap st.cached)
             left == IF Cardinality(uncached) < 5 THEN {} ELSE uncached
             found == InOrder(SparqlItems(pg, left, variant, changed))
             wanted == loaded \o found
         IN [cached |-> st.cached \cup Range(wanted),
             out |-> st.out \o Flatten([i \in 1..Len(wanted) |->
                        get_constraints(c, pg, wanted[i], {variant.type}, None)]),
             queries |-> IF left = {} THEN st.queries
                         ELSE Append(st.queries,
                                     [type |-> variant.type,
                                      item_id |-> variant.item_id, left |-> left,
                                      found |-> Range(found),
                                      failed |-> sparql = "down"])]

RECURSIVE ItemVariantLoop(_, _, _, _, _, _)
ItemVariantLoop(c, pg, st, props, changed, variants) ==
    IF variants = <<>> THEN st
    ELSE ItemVariantLoop(c, pg,
            ItemVariantStep(c, pg, st, props, changed, Head(variants)),
            props, changed, Tail(variants))

\* [cached |-> keys of the cache afterwards, out |-> the constraints yielded,
\*  queries |-> the discovery queries sent]
get_item_constraints(c, pg, cached, props, changed) ==
    ItemVariantLoop(c, pg, [cached |-> cached, out |-> <<>>, queries |-> <<>>],
                    props, changed, ItemVariants)

-----------------------------------------------------------------------------
(* evaluator.py: evaluate_change                                           *)

\* the skip rule with its second part applied to every atom with a new claim
SkipAtomAnyNewClaim(current, old_claim, new_claim) ==
    /\ current.id # None
    /\ \/ ~IsNone(old_claim) /\ item_has_claim(current, old_claim)
       \/ ~IsNone(new_claim) /\ new_claim.prop \notin ClaimKeys(current)

\* lines 566-571
SkipAtom(current, old_claim, new_claim) ==
    /\ current.id # None
    /\ \/ ~IsNone(old_claim) /\ item_has_claim(current, old_claim)
       \/ /\ ~IsNone(new_claim) /\ IsNone(old_claim)
          /\ new_claim.prop \notin ClaimKeys(current)

RECURSIVE AtomLoop(_, _, _, _, _, _, _)
AtomLoop(c, pg, old, new, current, atoms, E) ==
    IF atoms = <<>> \/ E.raised # None THEN E
    ELSE LET old_claim == Head(atoms)[1]
             new_claim == Head(atoms)[2]
             context == Context(<<old, new, old_claim, new_claim>>)
         IN IF SkipAtom(current, old_claim, new_claim)
            THEN AtomLoop(c, pg, old, new, current, Tail(atoms), E)
            ELSE IF context.raised # None
            THEN [E EXCEPT !.raised = context.raised, !.line = 573]
            ELSE AtomLoop(c, pg, old, new, current, Tail(atoms),
                    [evaluate_atomic_change(c, pg, context, E)
                        EXCEPT !.touched = @ \cup {ContextProp(context)}])

EntityLevelSpecifier == {"ItemRequires", "ConflictsWith", "SubjectType"}

\* lines 586-592
DeltaJobs(c, pg, props, handler, context) ==
    Flatten([i \in 1..Len(InOrder(props)) |->
        LET constrs == get_constraints(c, pg, InOrder(props)[i],
                                       EntityLevelSpecifier, None)
        IN <<FetchJob(InOrder(props)[i])>>
           \o [k \in 1..Len(constrs) |-> HandlerJob(constrs[k], handler, MAIN, context)]])

\* lines 577-598
EntityLevel(c, pg, old, new, current, E) ==
    LET context == Context(<<old, new, None, None>>)
        added == IF current.id # None
                 THEN (ClaimKeys(new) \ ClaimKeys(old)) \cap ClaimKeys(current)
                 ELSE ClaimKeys(new) \ ClaimKeys(old)
        removed == IF current.id # None
                   THEN (ClaimKeys(old) \ ClaimKeys(new)) \ ClaimKeys(current)
                   ELSE ClaimKeys(old) \ ClaimKeys(new)
        \* lines 594-598, after the loops of lines 586-592 left E1
        Updates(E1, yielded) ==
            [RunJobs(c, pg, E1,
                     [i \in 1..Len(yielded.out) |->
                         HandlerJob(yielded.out[i], "handle_update", MAIN, context)])
                EXCEPT !.fetched = yielded.cached \ DOMAIN c,
                       !.queries = yielded.queries]
        Discovery(E1) ==
            Updates(E1, get_item_constraints(c, pg, DOMAIN c \cup E1.fetched,
                                             ClaimKeys(old) \cap ClaimKeys(new),
                                             E1.touched))
    IN IF context.raised # None
       THEN [E EXCEPT !.raised = context.raised, !.line = 577]
       ELSE Discovery(RunJobs(c, pg, E,
                        DeltaJobs(c, pg, added, "handle_addition", context)
                        \o DeltaJobs(c, pg, removed, "handle_removal", context)))

evaluate_change(c, pg, old, new, current) ==
    LET AfterAtoms(E) ==
            IF E.raised # None THEN E ELSE EntityLevel(c, pg, old, new, current, E)
    IN AfterAtoms(AtomLoop(c, pg, old, new, current, claim_differences(old, new),
                           NewEval))

-----------------------------------------------------------------------------
(* evaluator.py: evaluate_entity                                           *)

\* one call of violates or satisfied: the constraint, the scope of what it
\* was called on, and whether the constraint was appended to violated
CheckEntry(constr, scope, handler, failed) ==
    [constraint |-> constr, scope |-> scope, handler |-> handler, failed |-> failed]

\* lines 616-623 for one qualifier property of a claim
QualPropChecks(c, pg, claim, qprop) ==
    LET constrs == get_constraints(c, pg, qprop, {"ClaimConstraintType"}, QUALIFIER)
        values == claim.qualifiers[qprop]
    IN Flatten([i \in 1..Len(constrs) |->
          [j \in 1..Len(values) |->
              CheckEntry(constrs[i], QUALIFIER, "violates",
                         violates(constrs[i].type, values[j]))]])

\* lines 615-623 for one claim
QualChecks(c, pg, claim) ==
    Flatten([i \in 1..Len(QualProps) |-> QualPropChecks(c, pg, claim, QualProps[i])])

\* the inner loop of line 616 assigns the variable constr of the loop of line
\* 606: after a claim, constr is the last constraint the inner loop ran through
ConstrAfter(c, pg, constr, claim) ==
    LET lists == [i \in 1..Len(QualProps) |->
                    IF claim.qualifiers[QualProps[i]] = <<>> THEN <<>>
                    ELSE get_constraints(c, pg, QualProps[i],
                                         {"ClaimConstraintType"}, QUALIFIER)]
        all == Flatten(lists)
    IN IF all = <<>> THEN constr ELSE all[Len(all)]

\* lines 611-623: the claims of a property under the variable constr
RECURSIVE ClaimChecks(_, _, _, _)
ClaimChecks(c, pg, constr, claims) ==
    IF claims = <<>> THEN <<>>
    ELSE <<CheckEntry(constr, MAIN, "violates", violates(constr.type, Head(claims)))>>
         \o QualChecks(c, pg, Head(claims))
         \o ClaimChecks(c, pg, ConstrAfter(c, pg, constr, Head(claims)), Tail(claims))

\* lines 605-623
PropChecks(c, pg, entity, prop) ==
    LET constrs == get_constraints(c, pg, prop, {"ClaimConstraintType"}, MAIN) IN
    Flatten([i \in 1..Len(constrs) |->
                ClaimChecks(c, pg, constrs[i], entity.claims[prop])])

\* properties passed to get_constraints by lines 605-623
EntityFetches(entity) ==
    ClaimKeys(entity)
    \cup UNION {UNION {QualKeys(claim) : claim \in Range(entity.claims[p])} :
                   p \in ClaimKeys(entity)}

evaluate_entity(c, pg, entity) ==
    LET claim_checks == Flatten([i \in 1..Len(MainProps) |->
                                    PropChecks(c, pg, entity, MainProps[i])])
        fetched == EntityFetches(entity)
        yielded == get_item_constraints(c, pg, DOMAIN c \cup fetched,
                                        ClaimKeys(entity), ClaimKeys(entity))
        checks == claim_checks
                  \o [i \in 1..Len(yielded.out) |->
                        CheckEntry(yielded.out[i], MAIN, "satisfied",
                                   ~satisfied(yielded.out[i].type, entity))]
        failed == SelectSeq(checks, LAMBDA e : e.failed)
    IN [violated |-> [i \in 1..Len(failed) |-> failed[i].constraint],
        log |-> [i \in 1..Len(checks) |->
                    LogEntry(checks[i].constraint, checks[i].scope, checks[i].handler)],
        fetched |-> yielded.cached \ DOMAIN c]

-----------------------------------------------------------------------------
(* The property pages of the model                                         *)

\* the P2316 qualifiers of a declaration: none, mandatory, suggestion
StatusQualifier(k) ==
    CASE k % 3 = 0 -> <<>>
      [] k % 3 = 1 -> <<DQ("Q21502408")>>
      [] k % 3 = 2 -> <<DQ("Q62026391")>>

\* P1 (item-valued) declares OneOf({Q1}), Qualifiers({P3}), an ItemRequires(P2)
\* restricted to the qualifier scope and a deprecated NoneOf({Q1});
\* P2 (quantity-valued) declares PropertyScope({MAIN});
\* rot rotates the statuses over the declarations
PagesFor(rot) ==
    [p \in AllProps |-> Loaded(
        CASE p = "P1" ->
                MkPage("P1", "wikibase-item",
                  <<MkDecl("P1$d1", "Q21510859", "normal", <<DQ("Q1")>>, <<>>,
                           StatusQualifier(rot), <<>>, <<>>, <<>>),
                    MkDecl("P1$d2", "Q21510851", "normal", <<>>, <<DQ("P3")>>,
                           StatusQualifier(rot + 1), <<>>, <<>>, <<>>),
                    MkDecl("P1$d3", "Q21503247", "normal", <<>>, <<DQ("P2")>>,
                           StatusQualifier(rot + 2), <<DQ("Q46466783")>>, <<>>, <<>>),
                    MkDecl("P1$d4", "Q52558054", "deprecated", <<DQ("Q1")>>, <<>>,
                           <<>>, <<>>, <<>>, <<>>)>>)
          [] p = "P2" ->
                MkPage("P2", "quantity",
                  <<MkDecl("P2$d1", "Q53869507", "normal", <<>>, <<>>,
                           StatusQualifier(rot + 1), <<>>, <<DQ("Q54828448")>>, <<>>)>>)
          [] OTHER -> MkPage(p, "wikibase-item", <<>>))]

PageChoices == {PagesFor(rot) : rot \in 0..2}

-----------------------------------------------------------------------------
(* The revisions of the model                                              *)

QualifierValues == {Qual("P2", Quantity(1)), Qual("P2", Quantity(100))}

ReferenceBlocks == {<<"P248">>}

FirstClaims ==
    {MkClaim("P1$c1", "P1", "value", Item(q), [p \in Range(QualProps) |-> quals],
             srcs, FALSE) :
        q \in {"Q1", "Q2"},
        quals \in SeqsUpTo(QualifierValues, MaxQuals),
        srcs \in SeqsUpTo(ReferenceBlocks, MaxRefs)}

SecondClaim == MkClaim("P1$c2", "P1", "value", Item("Q4"), NoQuals, <<>>, FALSE)

QuantityClaim == MkClaim("P2$c1", "P2", "value", Quantity(10), NoQuals, <<>>, FALSE)

\* a second claim follows a first claim with the allowed value and no
\* reference
P1Lists == {<<>>} \cup {<<claim>> : claim \in FirstClaims}
           \cup {<<claim, SecondClaim>> :
                    claim \in {c \in FirstClaims :
                                c.target = Item("Q1") /\ c.sources = <<>>}}

P2Lists == {<<>>, <<QuantityClaim>>}

Revisions ==
    {MkRevision([p \in Range(MainProps) |->
                    IF p = "P1" THEN l1 ELSE IF p = "P2" THEN l2 ELSE <<>>]) :
        l1 \in P1Lists, l2 \in P2Lists}

-----------------------------------------------------------------------------
(* The evaluator session: one call on a freshly constructed store          *)

NoConstraint == MkConstraint(None, None, NoType, 0, {})

\* what a handler is called for: a main claim pair, a qualifier pair of an
\* updated claim (with the parent claims), or the entity (no claim at all)
MkTarget(scope, old_claim, new_claim, old_parent, new_parent) ==
    [scope |-> scope, old_claim |-> old_claim, new_claim |-> new_claim,
     old_parent |-> old_parent, new_parent |-> new_parent]

NoTargetGiven == MkTarget(None, NoClaim, NoClaim, NoClaim, NoClaim)

\* the call made: its name, the name of the revision passed as current (or
\* as entity), the constraint and the target of a handler call
MkCall(op, current, constr, target) ==
    [op |-> op, current |-> current, constr |-> constr, target |-> target]

NoCall == MkCall(None, None, NoConstraint, NoTargetGiven)

Rev(name) ==
    CASE name = "old" -> old_rev
      [] name = "new" -> new_rev
      [] name = "bare" -> MkRevision([p \in Range(MainProps) |-> <<>>])
      [] OTHER -> NoRevision

\* no store session and no SubjectType predicate in use
NoSession ==
    [calls |-> 0, before |-> {}, loads |-> {}, queries |-> <<>>, yielded |-> <<>>,
     purged |-> {}]
NoSubject == <<>>

Init ==
    /\ pages \in PageChoices
    /\ old_rev \in Revisions
    /\ new_rev \in Revisions
    /\ cache = <<>>
    /\ result = NewResult
    /\ dispatched = <<>>
    /\ violated = <<>>
    /\ call = NoCall
    /\ outcome = "idle"
    /\ sparql = "up"
    /\ session = NoSession
    /\ subject = NoSubject

Outcome(raised) == IF raised = None THEN "returned" ELSE raised

\* evaluate_change(old_rev, new_rev, current), current being absent, one of
\* the two revisions or a revision without claims
EvaluateChange ==
    /\ outcome = "idle"
    /\ \E current \in {"none", "old", "new", "bare"} :
        \E E \in {evaluate_change(cache, pages, old_rev, new_rev, Rev(current))} :
        /\ call' = MkCall("evaluate_change", current, NoConstraint, NoTargetGiven)
        /\ result' = E.res
        /\ dispatched' = E.log
        /\ cache' = CacheAfter(cache, pages, E.fetched)
        /\ outcome' = Outcome(E.raised)
    /\ UNCHANGED <<pages, old_rev, new_rev, violated, sparql, session, subject>>

\* evaluate_entity(new_rev)
EvaluateEntity ==
    /\ outcome = "idle"
    /\ \E name \in {"new"} :
        \E K \in {evaluate_entity(cache, pages, Rev(name))} :
        /\ call' = MkCall("evaluate_entity", name, NoConstraint, NoTargetGiven)
        /\ violated' = K.violated
        /\ dispatched' = K.log
        /\ cache' = CacheAfter(cache, pages, K.fetched)
        /\ outcome' = "returned"
    /\ UNCHANGED <<pages, old_rev, new_rev, result, sparql, session, subject>>

\* the well-formed Context a caller builds for a target: new_for_claim for a
\* main claim pair, for_qualifier for a qualifier pair
ContextOf(target) ==
    Context(<<VersionContext(old_rev,
                             IF IsNone(target.old_parent) THEN old_rev
                             ELSE target.old_parent,
                             target.old_claim),
              VersionContext(new_rev,
                             IF IsNone(target.new_parent) THEN new_rev
                             ELSE target.new_parent,
                             target.new_claim)>>)

MainTargets ==
    {MkTarget(MAIN, atom[1], atom[2], NoClaim, NoClaim) :
        atom \in Range(claim_differences(old_rev, new_rev))}

Optional(claims) == Range(claims) \cup {NoClaim}

QualifierTargets ==
    UNION {UNION {{MkTarget(QUALIFIER, old_qual, new_qual, t.old_claim, t.new_claim) :
                      old_qual \in Optional(t.old_claim.qualifiers[p]),
                      new_qual \in Optional(t.new_claim.qualifiers[p])}
                  \ {MkTarget(QUALIFIER, NoClaim, NoClaim, t.old_claim, t.new_claim)} :
                  p \in Range(QualProps)} :
           t \in {m \in MainTargets : ~IsNone(m.old_claim) /\ ~IsNone(m.new_claim)}}

EntityTarget == MkTarget(MAIN, NoClaim, NoClaim, NoClaim, NoClaim)

TargetProp(target) ==
    IF ~IsNone(target.old_claim) THEN target.old_claim.prop ELSE target.new_claim.prop

\* the constraints of the store a handler can be called on for the target
TargetConstraints(target) ==
    IF target = EntityTarget
    THEN UNION {Range(get_constraints(cache, pages, p, ItemConstraintTypes, None)) :
                   p \in ClaimKeys(old_rev) \cup ClaimKeys(new_rev)}
    ELSE Range(get_constraints(cache, pages, TargetProp(target),
                               {"ClaimConstraintType"}, target.scope))

\* the sides of the context the handler reads are present
Reads(handler, target) ==
    \/ target = EntityTarget
    \/ CASE handler = "handle_addition" -> ~IsNone(target.new_claim)
         [] handler = "handle_removal" -> ~IsNone(target.old_claim)
         [] handler = "handle_update" ->
                ~IsNone(target.old_claim) /\ ~IsNone(target.new_claim)

\* evaluate_atomic_change(context, result) with a fresh Result
EvaluateAtomicChange ==
    /\ outcome = "idle"
    /\ \E target \in MainTargets :
        \E E \in {evaluate_atomic_change(cache, pages, ContextOf(target), NewEval)} :
        /\ call' = MkCall("evaluate_atomic_change", None, NoConstraint, target)
        /\ result' = E.res
        /\ dispatched' = E.log
        /\ cache' = CacheAfter(cache, pages, E.fetched)
        /\ outcome' = Outcome(E.raised)
    /\ UNCHANGED <<pages, old_rev, new_rev, violated, sparql, session, subject>>

\* constr.handle_addition / handle_removal / handle_update(context, result)
\* on a constraint obtained from the store, with a fresh Result
HandlerCall(handler) ==
    /\ outcome = "idle"
    /\ \E target \in MainTargets \cup QualifierTargets \cup {EntityTarget} :
        /\ Reads(handler, target)
        /\ \E constr \in TargetConstraints(target) :
            /\ call' = MkCall(handler, None, constr, target)
            /\ result' = Handle(cache, pages, constr, handler, ContextOf(target),
                                NewResult)
            /\ dispatched' = <<LogEntry(constr, target.scope, handler)>>
            /\ cache' = CacheAfter(cache, pages,
                            {constr.prop}
                            \cup HandlerFetches(cache, pages, constr, handler,
                                                ContextOf(target)))
            /\ outcome' = "returned"
    /\ UNCHANGED <<pages, old_rev, new_rev, violated, sparql, session, subject>>

HandleAddition == HandlerCall("handle_addition")

HandleRemoval == HandlerCall("handle_removal")

HandleUpdate == HandlerCall("handle_update")

Next ==
    \/ EvaluateChange
    \/ EvaluateEntity
    \/ EvaluateAtomicChange
    \/ HandleAddition
    \/ HandleRemoval
    \/ HandleUpdate

Spec == Init /\ [][Next]_vars

-----------------------------------------------------------------------------
(* Result histories: Result.add called any number of times on one Result   *)

AddedConstraints ==
    {MkConstraint("P1", "P1$d1", OneOf({"Q1"}), REGULAR, Scope),
     MkConstraint("P1", None, HasValidReference, REGULAR, {MAIN})}

AddedScores == {-2, -1, 0, 1, 2}

InitResult ==
    /\ pages = PagesFor(0)
    /\ old_rev = MkRevision([p \in Range(MainProps) |-> <<>>])
    /\ new_rev = MkRevision([p \in Range(MainProps) |-> <<>>])
    /\ cache = <<>>
    /\ result = NewResult
    /\ dispatched = <<>>
    /\ violated = <<>>
    /\ call = NoCall
    /\ outcome = "idle"
    /\ sparql = "up"
    /\ session = NoSession
    /\ subject = NoSubject

\* result.add(constraint, score)
ResultAdd ==
    /\ Len(result.evaluated) < MaxAdds
    /\ \E constraint \in AddedConstraints, score \in AddedScores :
        /\ result' = add(result, constraint, score)
        /\ call' = MkCall("add", None, constraint, NoTargetGiven)
    /\ outcome' = "returned"
    /\ UNCHANGED <<pages, old_rev, new_rev, cache, dispatched, violated, sparql,
                   session, subject>>

NextResult == ResultAdd

SpecResult == InitResult /\ [][NextResult]_vars

-----------------------------------------------------------------------------
(* Store sessions: a sequence of calls on one ConstraintsStore, whose cache *)
(* lives as long as the store, with the SPARQL endpoint going up and down   *)

MaxCalls == 3

StoreProps == {"P1", "P2", "P3", "P4", "P5", "P6"}

\* P1 declares ItemRequires(P2), P2 (quantity-valued) a deprecated OneOf,
\* P3 a SubjectType (instance of Q5), P4 ConflictsWith(P1),
\* P5 (string-valued) LabelInLanguage({en}) and a LabelInLanguage without
\* languages, P6 a ValueType (instance of Q5)
StorePages ==
    [p \in AllProps \cup StoreProps |-> Loaded(
        CASE p = "P1" ->
                MkPage("P1", "wikibase-item",
                  <<MkDecl("P1$d1", "Q21503247", "normal", <<>>, <<DQ("P2")>>,
                           <<>>, <<>>, <<>>, <<>>)>>)
          [] p = "P2" ->
                MkPage("P2", "quantity",
                  <<MkDecl("P2$d1", "Q21510859", "deprecated", <<DQ("Q1")>>, <<>>,
                           <<>>, <<>>, <<>>, <<>>)>>)
          [] p = "P3" ->
                MkPage("P3", "wikibase-item",
                  <<MkTypeDecl("P3$d1", "Q21503250", "normal", <<DQ("Q5")>>,
                               <<DQ("Q21503252")>>)>>)
          [] p = "P4" ->
                MkPage("P4", "wikibase-item",
                  <<MkDecl("P4$d1", "Q21502838", "normal", <<>>, <<DQ("P1")>>,
                           <<>>, <<>>, <<>>, <<>>)>>)
          [] p = "P5" ->
                MkPage("P5", "string",
                  <<MkDecl("P5$d1", "Q108139345", "normal", <<>>, <<>>,
                           <<>>, <<>>, <<>>, <<DQ("en")>>),
                    MkDecl("P5$d2", "Q108139345", "normal", <<>>, <<>>,
                           <<>>, <<>>, <<>>, <<>>)>>)
          [] p = "P6" ->
                MkPage("P6", "wikibase-item",
                  <<MkTypeDecl("P6$d1", "Q21510865", "normal", <<DQ("Q5")>>,
                               <<DQ("Q21503252")>>)>>)
          [] OTHER -> MkPage(p, "wikibase-item", <<>>))]

\* an entity with one claim of each of P1..P5, and one without claims
StoreClaim(p) ==
    IF p = "P2" THEN QuantityClaim
    ELSE IF p = "P5"
    THEN MkClaim("P5$c1", "P5", "novalue", NoTarget, NoQuals, <<>>, FALSE)
    ELSE MkClaim(p \o "$c1", p, "value", Item("Q1"), NoQuals, <<>>, FALSE)

StoreRevisions ==
    {MkRevision([p \in Range(MainProps) |-> <<>>]),
     MkRevision([p \in Range(MainProps) |-> <<StoreClaim(p)>>])}

\* the arguments of get_item_constraints the session draws from
PropsChoices == {StoreProps, StoreProps \ {"P6"}, {"P1", "P3"}}
ChangedChoices == {{}, {"P2"}, {"P31"}, {"P1", "P2", "P279"}}

\* the call made on the store: its name and arguments
StoreCall(op, prop, props, changed) ==
    [op |-> op, prop |-> prop, props |-> props, changed |-> changed,
     current |-> "none"]

\* what a call did: before = the cache keys it found, loads = the properties
\* load_constraints ran for, queries = the discovery queries sent, yielded =
\* the constraints handed out; purged = the cached properties purged so far
Did(loads, queries, yielded) ==
    [calls |-> session.calls + 1, before |-> DOMAIN cache, loads |-> loads,
     queries |-> queries, yielded |-> yielded, purged |-> session.purged]

\* lines 96-98: get_constraints runs load_constraints for a key without a
\* cache entry; props are the keys a call asks get_constraints for
Loads(c, props) == props \ DOMAIN c

\* a purge that drops the whole cache
purge_everything(c, prop) == <<>>

\* lines 430-432
purge(c, prop) == [p \in DOMAIN c \ {prop} |-> c[p]]

InitStore ==
    /\ pages = StorePages
    /\ old_rev \in StoreRevisions
    /\ new_rev \in StoreRevisions
    /\ cache = <<>>
    /\ result = NewResult
    /\ dispatched = <<>>
    /\ violated = <<>>
    /\ call = NoCall
    /\ outcome = "idle"
    /\ sparql = "up"
    /\ session = NoSession
    /\ subject = NoSubject

\* the endpoint fails or recovers between two calls
EndpointChange ==
    /\ sparql' = IF sparql = "up" THEN "down" ELSE "up"
    /\ UNCHANGED <<pages, old_rev, new_rev, cache, result, dispatched, violated,
                   call, outcome, session, subject>>

\* store.get_constraints(prop)
GetConstraints ==
    /\ session.calls < MaxCalls
    /\ \E prop \in StoreProps :
        /\ call' = StoreCall("get_constraints", prop, {}, {})
        /\ session' = Did(Loads(cache, {prop}), <<>>,
                          get_constraints(cache, pages, prop, {None}, None))
        /\ cache' = CacheAfter(cache, pages, {prop})
    /\ outcome' = "returned"
    /\ UNCHANGED <<pages, old_rev, new_rev, result, dispatched, violated, sparql,
                   subject>>

\* list(store.get_item_constraints(props, changed))
GetItemConstraints ==
    /\ session.calls < MaxCalls
    /\ \E props \in PropsChoices, changed \in ChangedChoices :
        \E r \in {get_item_constraints(cache, pages, DOMAIN cache, props, changed)} :
        /\ call' = StoreCall("get_item_constraints", None, props, changed)
        /\ session' = Did(Loads(cache, r.cached), r.queries, r.out)
        /\ cache' = CacheAfter(cache, pages, r.cached)
    /\ outcome' = "returned"
    /\ UNCHANGED <<pages, old_rev, new_rev, result, dispatched, violated, sparql,
                   subject>>

\* store.purge(prop)
Purge ==
    /\ session.calls < MaxCalls
    /\ \E prop \in StoreProps :
        /\ call' = StoreCall("purge", prop, {}, {})
        /\ cache' = purge(cache, prop)
        /\ session' = [Did({}, <<>>, <<>>) EXCEPT
                            !.purged = @ \cup ({prop} \cap DOMAIN cache)]
    /\ outcome' = "returned"
    /\ UNCHANGED <<pages, old_rev, new_rev, result, dispatched, violated, sparql,
                   subject>>

\* evaluate_entity(new_rev) on the session's store
SessionEvaluateEntity ==
    /\ session.calls < MaxCalls
    /\ \E K \in {evaluate_entity(cache, pages, new_rev)} :
        /\ call' = StoreCall("evaluate_entity", None, {}, {})
        /\ violated' = K.violated
        /\ dispatched' = K.log
        /\ session' = Did(Loads(cache, K.fetched), <<>>, <<>>)
        /\ cache' = CacheAfter(cache, pages, K.fetched)
    /\ outcome' = "returned"
    /\ UNCHANGED <<pages, old_rev, new_rev, result, sparql, subject>>

\* evaluate_change(old_rev, new_rev) on the session's store
SessionEvaluateChange ==
    /\ session.calls < MaxCalls
    /\ \E E \in {evaluate_change(cache, pages, old_rev, new_rev, NoRevision)} :
        /\ call' = StoreCall("evaluate_change", None, {}, {})
        /\ result' = E.res
        /\ dispatched' = E.log
        /\ session' = Did(Loads(cache, E.fetched), E.queries, <<>>)
        /\ cache' = CacheAfter(cache, pages, E.fetched)
        /\ outcome' = Outcome(E.raised)
    /\ UNCHANGED <<pages, old_rev, new_rev, violated, sparql, subject>>

NextStore ==
    \/ EndpointChange
    \/ GetConstraints
    \/ GetItemConstraints
    \/ Purge
    \/ SessionEvaluateEntity
    \/ SessionEvaluateChange

SpecStore == InitStore /\ [][NextStore]_vars

-----------------------------------------------------------------------------
(* utils.py: LRUCache, an OrderedDict (eldest entry first) with a limit    *)

LRUCache(limit) == [limit |-> limit, items |-> <<>>]

keys(lru) == {lru.items[i].key : i \in 1..Len(lru.items)}

has(lru, key) == key \in keys(lru)

move_to_end(items, key) ==
    SelectSeq(items, LAMBDA e : e.key # key)
    \o SelectSeq(items, LAMBDA e : e.key = key)

\* get returns the value and moves the key to the end
get(lru, key) ==
    [val |-> (CHOOSE e \in Range(lru.items) : e.key = key).val,
     lru |-> [lru EXCEPT !.items = move_to_end(@, key)]]

\* an _ensure_limit that pops the newest entries (popitem(last=True))
_ensure_limit_newest(lru) ==
    IF Len(lru.items) > lru.limit
    THEN [lru EXCEPT !.items = SubSeq(@, 1, lru.limit)]
    ELSE lru

\* pops the eldest entries while there are more than limit
_ensure_limit(lru) ==
    IF Len(lru.items) > lru.limit
    THEN [lru EXCEPT !.items = SubSeq(@, Len(@) - lru.limit + 1, Len(@))]
    ELSE lru

set(lru, key, val) ==
    _ensure_limit(
        [lru EXCEPT !.items = SelectSeq(@, LAMBDA e : e.key # key)
                              \o <<[key |-> key, val |-> val]>>])

-----------------------------------------------------------------------------
(* builtin.py: SubjectType.satisfied and its (base, class) cache.  Items    *)
(* are numbered here: n stands for the item Qn.                            *)

CACHE_LIMIT == 100

\* line 77: the cache handed in, or a cache of its own when that is falsy
\* (None, or an empty OrderedDict)
SubjectCache(given) == IF given # <<>> THEN given ELSE LRUCache(CACHE_LIMIT)

\* the subclass graph the endpoint answers from (?base wdt:P279+ ?super):
\* every base is a subclass of Q6, the even ones of Q5 as well
Super(base) == IF base % 2 = 0 THEN {5, 6} ELSE {6}

\* lines 80-85: the targets of the claims of the relation's properties; 0
\* stands for a claim without a target
Check(relation, revision) ==
    UNION {Range(revision[relation[i]]) : i \in 1..Len(relation)} \ {0}

\* the pairs of a set in ascending order (the iteration order of a Python
\* set is unspecified; nothing checked here depends on it)
PairOrder(pairs) ==
    LET Before(x) == {y \in pairs : y[1] < x[1] \/ (y[1] = x[1] /\ y[2] < x[2])}
    IN [i \in 1..Cardinality(pairs) |->
            CHOOSE x \in pairs : Cardinality(Before(x)) = i - 1]

\* lines 98-102: any(cache.has(key) and cache.get(key) for key in cross)
RECURSIVE AnyCachedTrue(_, _)
AnyCachedTrue(lru, cross) ==
    IF cross = <<>> THEN [found |-> FALSE, lru |-> lru]
    ELSE IF ~has(lru, Head(cross)) THEN AnyCachedTrue(lru, Tail(cross))
    ELSE LET Got(g) == IF g.val THEN [found |-> TRUE, lru |-> g.lru]
                       ELSE AnyCachedTrue(g.lru, Tail(cross))
         IN Got(get(lru, Head(cross)))

\* lines 116-129: cache.set(key, key in rows) for every key of a list
\* (limit is never negative; reading it keeps the evaluation strict)
RECURSIVE SetEach(_, _, _)
SetEach(lru, list, rows) ==
    IF list = <<>> \/ lru.limit < 0 THEN lru
    ELSE SetEach(set(lru, Head(list), Head(list) \in rows), Tail(list), rows)

\* SubjectType.satisfied(revision): [out, lru, queried, raised, cross]
SubjectSatisfied(type, lru, revision) ==
    LET check == Check(type.relation, revision)
        cross == PairOrder(check \X type.values)
        rows == UNION {{<<base, super>> : super \in Super(base)} : base \in check}
        Done(out, after, queried, raised) ==
            [out |-> out, lru |-> after, queried |-> queried, raised |-> raised,
             cross |-> Range(cross)]
        AfterAny(hit) ==
            IF hit.found THEN Done(TRUE, hit.lru, FALSE, None)
            ELSE IF \A key \in Range(cross) : has(hit.lru, key)
            THEN Done(FALSE, hit.lru, FALSE, None)
            ELSE IF sparql = "down"
            THEN Done(FALSE, hit.lru, TRUE, "ServerError")
            ELSE Done(Range(cross) \cap rows # {},
                      SetEach(SetEach(hit.lru, PairOrder(rows), rows), cross, rows),
                      TRUE, None)
    IN IF check = {} THEN Done(FALSE, lru, FALSE, None)
       ELSE IF check \cap type.values # {} THEN Done(TRUE, lru, FALSE, None)
       ELSE AfterAny(AnyCachedTrue(lru, cross))

-----------------------------------------------------------------------------
(* SubjectType sessions: the SubjectType constraints of two properties of  *)
(* one store, evaluated on entities any number of times                    *)

MaxEvaluations == 3

\* P3 and P4 both declare a SubjectType: instance of (P31) Q5
SubjectProps == {"P3", "P4"}
SubjectOf(prop) == SubjectType(<<"P31">>, {5})

\* entities by their P31 targets: none, Q5 itself, Q11, Q12, thirty items
\* from Q20 on, thirty from Q50 on, and a claim without target
Targets(from, n) == [i \in 1..n |-> from + i - 1]
SubjectRevisions ==
    {[P31 |-> targets, P279 |-> <<>>] :
        targets \in {<<>>, <<5>>, <<11>>, <<12>>, <<0>>, Targets(20, 30),
                     Targets(50, 30)}}

NoEvaluation ==
    [prop |-> None, cross |-> {}, queried |-> FALSE, failed |-> FALSE,
     out |-> FALSE]

\* lines 77-81 and 282-294: the store's _caches['SubjectType'] is an empty
\* OrderedDict, handed to every SubjectType that load_constraints builds
InitSubject ==
    /\ pages = StorePages
    /\ old_rev = MkRevision([p \in Range(MainProps) |-> <<>>])
    /\ new_rev = MkRevision([p \in Range(MainProps) |-> <<>>])
    /\ cache = <<>>
    /\ result = NewResult
    /\ dispatched = <<>>
    /\ violated = <<>>
    /\ call = NoCall
    /\ outcome = "idle"
    /\ sparql = "up"
    /\ session = NoSession
    /\ subject = [_caches |-> <<>>,
                  _cache |-> [p \in SubjectProps |-> SubjectCache(<<>>)],
                  stored |-> [p \in SubjectProps |-> {}],
                  calls |-> 0, prev |-> NoEvaluation, last |-> NoEvaluation]

\* constr.type.satisfied(revision) on the SubjectType constraint of a property
Satisfied ==
    /\ subject.calls < MaxEvaluations
    /\ \E prop \in SubjectProps, revision \in SubjectRevisions :
        \E r \in {SubjectSatisfied(SubjectOf(prop), subject._cache[prop], revision)} :
        /\ call' = StoreCall("satisfied", prop, {}, {})
        /\ subject' = [subject EXCEPT
                !._cache[prop] = r.lru,
                !.stored[prop] = IF r.queried /\ r.raised = None
                                 THEN @ \cup r.cross
                                        \cup UNION {{<<b, s>> : s \in Super(b)} :
                                                       b \in {k[1] : k \in r.cross}}
                                 ELSE @,
                !.calls = @ + 1,
                !.prev = subject.last,
                !.last = [prop |-> prop, cross |-> r.cross, queried |-> r.queried,
                          failed |-> r.raised # None, out |-> r.out]]
        /\ outcome' = Outcome(r.raised)
    /\ UNCHANGED <<pages, old_rev, new_rev, cache, result, dispatched, violated,
                   sparql, session>>

NextSubject == EndpointChange \/ Satisfied

SpecSubject == InitSubject /\ [][NextSubject]_vars

-----------------------------------------------------------------------------
(* Diffs: claim_differences on two revisions whose claims vary in snak     *)
(* type, value, rank, qualifiers and references                            *)

DiffClaims ==
    {[MkClaim("P1$c1", "P1", key[1], key[2], quals, srcs, FALSE)
        EXCEPT !.rank = rank] :
        key \in {<<"value", Item("Q1")>>, <<"value", Item("Q2")>>,
                 <<"novalue", NoTarget>>},
        quals \in {NoQuals, [p \in Range(QualProps) |-> <<Qual("P2", Quantity(1))>>]},
        srcs \in {<<>>, <<<<"P248">>>>},
        rank \in {"normal", "preferred"}}

DiffLists ==
    {<<>>, <<SecondClaim>>} \cup {<<claim>> : claim \in DiffClaims}
    \cup {<<claim, SecondClaim>> : claim \in DiffClaims}

DiffRevisions ==
    {MkRevision([p \in Range(MainProps) |->
                    IF p = "P1" THEN l1 ELSE IF p = "P2" THEN l2 ELSE <<>>]) :
        l1 \in DiffLists, l2 \in P2Lists}

InitDiff ==
    /\ pages = PagesFor(0)
    /\ old_rev \in DiffRevisions
    /\ new_rev \in DiffRevisions
    /\ cache = <<>>
    /\ result = NewResult
    /\ dispatched = <<>>
    /\ violated = <<>>
    /\ call = NoCall
    /\ outcome = "idle"
    /\ sparql = "up"
    /\ session = NoSession
    /\ subject = NoSubject

\* list(evaluator.claim_differences(old_rev, new_rev))
ClaimDifferences ==
    /\ outcome = "idle"
    /\ call' = StoreCall("claim_differences", None, {}, {})
    /\ session' = [NoSession EXCEPT !.calls = 1,
                                    !.yielded = claim_differences(old_rev, new_rev)]
    /\ outcome' = "returned"
    /\ UNCHANGED <<pages, old_rev, new_rev, cache, result, dispatched, violated,
                   sparql, subject>>

NextDiff == ClaimDifferences

SpecDiff == InitDiff /\ [][NextDiff]_vars

-----------------------------------------------------------------------------
(* References: HasValidReference._is_valid_reference on blocks over        *)
(* properties with and without PropertyScope constraints                   *)

MaxBlock == 2       \* properties per reference block

BlockProps == {"P1", "P2", "P143", "P248"}

\* the P5314 scope items of the PropertyScope declarations of P248
ScopeChoices ==
    {<<>>, <<<<>>>>, <<<<"Q54828450">>>>, <<<<"Q54828448">>>>,
     <<<<"Q54828448", "Q54828450">>>>, <<<<"Q54828450">>, <<"Q54828448">>>>}

ScopeDecl(snak, ids) ==
    MkDecl(snak, "Q53869507", "normal", <<>>, <<>>, <<>>, <<>>,
           [j \in 1..Len(ids) |-> DQ(ids[j])], <<>>)

\* P1 and P143 declare no PropertyScope, P2 declares PropertyScope({MAIN}),
\* P248 the PropertyScope constraints of the choice
RefPagesFor(choice) ==
    [p \in AllProps |->
        IF p = "P248"
        THEN Loaded(MkPage("P248", "wikibase-item",
                [i \in 1..Len(choice) |->
                    ScopeDecl(IF i = 1 THEN "P248$d1" ELSE "P248$d2", choice[i])]))
        ELSE PagesFor(0)[p]]

InitRef ==
    /\ pages \in {RefPagesFor(choice) : choice \in ScopeChoices}
    /\ old_rev = NoRevision
    /\ new_rev = NoRevision
    /\ cache = <<>>
    /\ result = NewResult
    /\ dispatched = <<>>
    /\ violated = <<>>
    /\ call = NoCall
    /\ outcome = "idle"
    /\ sparql = "up"
    /\ session = NoSession
    /\ subject = NoSubject

\* HasValidReference(store)._is_valid_reference(reference) on a fresh store
IsValidReference ==
    /\ outcome = "idle"
    /\ \E reference \in SeqsUpTo(BlockProps, MaxBlock) :
        /\ call' = StoreCall("_is_valid_reference", None, {}, {})
                    @@ [reference |-> reference]
        /\ session' = [NoSession EXCEPT
                        !.calls = 1,
                        !.yielded = <<_is_valid_reference(cache, pages, reference)>>]
        /\ cache' = CacheAfter(cache, pages,
                               BlockPropsFetched(cache, pages, reference))
    /\ outcome' = "returned"
    /\ UNCHANGED <<pages, old_rev, new_rev, result, dispatched, violated,
                   sparql, subject>>

NextRef == IsValidReference

SpecRef == InitRef /\ [][NextRef]_vars

-----------------------------------------------------------------------------
(* Targets: the predicates that resolve the entity a claim points to, run  *)
(* one turn of resolve_target_entity at a time                             *)

TargetIds3 == {"Q10", "Q11", "Q12"}

ValueRequires(prop, values, given) == MkType("ValueRequires", values, given, prop)
Symmetric == MkType("Symmetric", {}, FALSE, None)
Inverse(prop) == MkType("Inverse", {}, FALSE, prop)

\* an entity id of the repository: a page with its claims, a redirect to
\* another id, or an id without a page
PageEntity(claims) == [kind |-> "page", to |-> None, claims |-> claims]
RedirectEntity(to) == [kind |-> "redirect", to |-> to, claims |-> <<>>]
Missing == [kind |-> "missing", to |-> None, claims |-> <<>>]

TargetClaim(p, q) == MkClaim("", p, "value", Item(q), NoQuals, <<>>, FALSE)

\* a page without claims, a page whose P1 and P3 point back at the evaluated
\* entity, a page whose P1 points elsewhere, a disambiguation page
PageChoicesOfTargets ==
    {PageEntity([p \in {"P1", "P3", "P31"} |-> <<>>]),
     PageEntity([p \in {"P1", "P3", "P31"} |->
                    IF p = "P31" THEN <<>> ELSE <<TargetClaim(p, EntityId)>>]),
     PageEntity([p \in {"P1", "P3", "P31"} |->
                    IF p = "P1" THEN <<TargetClaim(p, "Q9")>> ELSE <<>>]),
     PageEntity([p \in {"P1", "P3", "P31"} |->
                    IF p = "P31" THEN <<TargetClaim(p, "Q22808320")>> ELSE <<>>])}

\* no id redirects to itself
Worlds ==
    {world \in [TargetIds3 -> PageChoicesOfTargets \cup {Missing}
                                \cup {RedirectEntity(to) : to \in TargetIds3}] :
        \A id \in TargetIds3 : world[id].to # id}

TargetTypes ==
    {ValueRequires("P1", {}, FALSE), ValueRequires("P1", {EntityId}, TRUE),
     Symmetric, Inverse("P3"), NoLinksToDisambiguation}

\* the claim P1$c1 of the evaluated entity: an item, a quantity, novalue
TargetClaims ==
    {MkClaim("P1$c1", "P1", "value", Item(q), NoQuals, <<>>, FALSE) : q \in TargetIds3}
    \cup {MkClaim("P1$c1", "P1", "value", Quantity(1), NoQuals, <<>>, FALSE),
          MkClaim("P1$c1", "P1", "novalue", NoTarget, NoQuals, <<>>, FALSE)}

PointsBack(claims, on_item) ==
    \E i \in 1..Len(claims) : claims[i].target = Item(on_item)

\* an except NoPageError clause that returns False in every predicate
violates_missing_ok(type) == FALSE

\* what violates returns when resolve_target_entity raised NoPageError
violates_missing(type) ==
    CASE type.name \in {"ValueRequires", "Symmetric", "Inverse"} -> TRUE
      [] type.name = "NoLinksToDisambiguation" -> FALSE

\* what violates returns for the entity resolve_target_entity returned
violates_resolved(type, claim, entity) ==
    CASE type.name = "ValueRequires" ->
            IF entity.claims[type.prop] = <<>> THEN TRUE
            ELSE IF ~type.given THEN FALSE
            ELSE ~AnyInValues(entity.claims[type.prop], type.values)
      [] type.name = "Symmetric" -> ~PointsBack(entity.claims[claim.prop], claim.on_item)
      [] type.name = "Inverse" -> ~PointsBack(entity.claims[type.prop], claim.on_item)
      [] type.name = "NoLinksToDisambiguation" ->
            \E i \in 1..Len(entity.claims["P31"]) :
                entity.claims["P31"][i].target.id \in {"Q4167410", "Q22808320"}

\* hops = the ids resolve_target_entity was redirected from
NoResolution == [world |-> <<>>, target |-> None, hops |-> {}, out |-> None]

InitTargets ==
    /\ pages = PagesFor(0)
    /\ old_rev = NoRevision
    /\ new_rev = NoRevision
    /\ cache = <<>>
    /\ result = NewResult
    /\ dispatched = <<>>
    /\ violated = <<>>
    /\ call = NoCall
    /\ outcome = "idle"
    /\ sparql = "up"
    /\ session \in {[NoResolution EXCEPT !.world = world] : world \in Worlds}
    /\ subject = NoSubject

\* constr.type.violates(claim) up to the call of resolve_target_entity
Violates ==
    /\ outcome = "idle"
    /\ \E type \in TargetTypes, claim \in TargetClaims :
        /\ call' = MkCall("violates", None,
                          MkConstraint("P1", None, type, REGULAR, TypeScopes(type)),
                          MkTarget(MAIN, NoClaim, claim, NoClaim, NoClaim))
        /\ IF claim.target.kind # "item"
           THEN /\ outcome' = "returned"
                /\ session' = [session EXCEPT !.out = FALSE]
           ELSE /\ outcome' = "resolving"
                /\ session' = [session EXCEPT !.target = claim.target.id]
    /\ UNCHANGED <<pages, old_rev, new_rev, cache, result, dispatched, violated,
                   sparql, subject>>

\* a turn of the loop of resolve_target_entity in which target.get() raises
\* IsRedirectPageError: target = target.getRedirectTarget()
FollowRedirect ==
    /\ outcome = "resolving"
    /\ session.world[session.target].kind = "redirect"
    /\ session' = [session EXCEPT !.target = session.world[session.target].to,
                                  !.hops = @ \cup {session.target}]
    /\ UNCHANGED <<pages, old_rev, new_rev, cache, result, dispatched, violated,
                   call, outcome, sparql, subject>>

\* the turn in which target.get() raises NoPageError: the predicate's except
\* clause returns
TargetMissing ==
    /\ outcome = "resolving"
    /\ session.world[session.target].kind = "missing"
    /\ session' = [session EXCEPT !.out = violates_missing(call.constr.type)]
    /\ outcome' = "returned"
    /\ UNCHANGED <<pages, old_rev, new_rev, cache, result, dispatched, violated,
                   call, sparql, subject>>

\* the turn in which target.get() succeeds: the rest of violates runs
TargetLoaded ==
    /\ outcome = "resolving"
    /\ session.world[session.target].kind = "page"
    /\ session' = [session EXCEPT
                    !.out = violates_resolved(call.constr.type, call.target.new_claim,
                                              session.world[session.target])]
    /\ outcome' = "returned"
    /\ UNCHANGED <<pages, old_rev, new_rev, cache, result, dispatched, violated,
                   call, sparql, subject>>

NextTargets == Violates \/ FollowRedirect \/ TargetMissing \/ TargetLoaded

SpecTargets == InitTargets /\ [][NextTargets]_vars

\* the interpreter keeps running the loop of resolve_target_entity
FairTargets ==
    SpecTargets /\ WF_vars(FollowRedirect) /\ WF_vars(TargetMissing)
                /\ WF_vars(TargetLoaded)

-----------------------------------------------------------------------------
(* LRUCache sessions: has, get and set calls on one cache                  *)

MaxLimit == 2       \* largest limit of the cache

LRUKeys == 1..(MaxLimit + 1)

LRUVals == {TRUE, FALSE}

\* lru = the cache, prev = the cache before the last call, used = the keys in
\* the order of their last get or set (eldest first), returned = what the
\* last call returned
NoLRU(limit) ==
    [lru |-> LRUCache(limit), prev |-> LRUCache(limit), used |-> <<>>,
     op |-> None, key |-> 0, val |-> None, returned |-> None]

Touch(used, key) == SelectSeq(used, LAMBDA k : k # key) \o <<key>>

InitLRU ==
    /\ pages = PagesFor(0)
    /\ old_rev = NoRevision
    /\ new_rev = NoRevision
    /\ cache = <<>>
    /\ result = NewResult
    /\ dispatched = <<>>
    /\ violated = <<>>
    /\ call = NoCall
    /\ outcome = "idle"
    /\ sparql = "up"
    /\ session = NoSession
    /\ subject \in {NoLRU(limit) : limit \in 1..MaxLimit}

\* cache.has(key)
Has ==
    /\ \E key \in LRUKeys :
        subject' = [subject EXCEPT !.prev = subject.lru, !.op = "has", !.key = key,
                                   !.val = None,
                                   !.returned = has(subject.lru, key)]
    /\ UNCHANGED <<pages, old_rev, new_rev, cache, result, dispatched, violated,
                   call, outcome, sparql, session>>

\* cache.get(key) for a key the caller found with has
Get ==
    /\ \E key \in keys(subject.lru) :
        \E got \in {get(subject.lru, key)} :
            subject' = [subject EXCEPT !.prev = subject.lru, !.lru = got.lru,
                                       !.used = Touch(@, key), !.op = "get",
                                       !.key = key, !.val = None,
                                       !.returned = got.val]
    /\ UNCHANGED <<pages, old_rev, new_rev, cache, result, dispatched, violated,
                   call, outcome, sparql, session>>

\* cache.set(key, val)
Set ==
    /\ \E key \in LRUKeys, val \in LRUVals :
        subject' = [subject EXCEPT !.prev = subject.lru,
                                   !.lru = set(subject.lru, key, val),
                                   !.used = Touch(@, key), !.op = "set",
                                   !.key = key, !.val = val, !.returned = None]
    /\ UNCHANGED <<pages, old_rev, new_rev, cache, result, dispatched, violated,
                   call, outcome, sparql, session>>

NextLRU == Has \/ Get \/ Set

SpecLRU == InitLRU /\ [][NextLRU]_vars

-----------------------------------------------------------------------------
(* builtin.py: DifferenceWithinRange on time values                        *)

MaxOthers == 2      \* claims of the other property on the entity

\* a WbTime; precision 9 is a year, 11 a day
Time(year, month, day, precision) ==
    [kind |-> "time", id |-> "", amount |-> 0, year |-> year, month |-> month,
     day |-> day, precision |-> precision]

\* a WbQuantity bound; the unit "1" is that of a quantity without a unit
\* item; NoBound stands for a bound left at None
Bound(amount, unit) == [given |-> TRUE, amount |-> amount, unit |-> unit]
NoBound == [given |-> FALSE, amount |-> 0, unit |-> "1"]

DifferenceWithinRange(prop, lower, upper) ==
    MkType("DifferenceWithinRange", {}, TRUE, prop)
    @@ [lower |-> lower, upper |-> upper]

\* WbTime.normalize: the fields finer than the precision are reset
normalize(time) ==
    IF time.precision < 11
    THEN [time EXCEPT !.month = IF time.precision < 10 THEN 1 ELSE @, !.day = 1]
    ELSE time

IsLeap(year) == (year % 4 = 0 /\ year % 100 # 0) \/ year % 400 = 0

DaysBeforeMonth == <<0, 31, 59, 90, 120, 151, 181, 212, 243, 273, 304, 334>>

\* the proleptic Gregorian ordinal of the date of a Timestamp
Ordinal(time) ==
    365 * (time.year - 1) + ((time.year - 1) \div 4) - ((time.year - 1) \div 100)
    + ((time.year - 1) \div 400) + DaysBeforeMonth[time.month]
    + (IF time.month > 2 /\ IsLeap(time.year) THEN 1 ELSE 0) + time.day

\* WbTime.toTimestamp raises ValueError for a year before 1
HasTimestamp(time) == time.year >= 1

FullYears(this, other) ==
    (this.year - other.year)
    - (IF this.month < other.month
          \/ (this.month = other.month /\ this.day < other.day) THEN 1 ELSE 0)

\* one of the bounds is crossed: cmp is "<" for the lower, ">" for the upper
Crosses(bound, cmp, years, days) ==
    LET Beyond(x) == IF cmp = "<" THEN x < bound.amount ELSE x > bound.amount
    IN /\ bound.given
       /\ \/ bound.unit = "Q577" /\ Beyond(years)
          \/ bound.unit = "Q573" /\ Beyond(days)
          \/ bound.unit = "Q11574" /\ Beyond(days * 86400)

_outside_range(type, this, other) ==
    IF this.kind = "time" /\ other.kind = "time"
    THEN LET this_norm == normalize(this)
             other_norm == normalize(other)
         IN IF ~HasTimestamp(this_norm) \/ ~HasTimestamp(other_norm) THEN FALSE
            ELSE \/ Crosses(type.lower, "<", FullYears(this_norm, other_norm),
                            Ordinal(this_norm) - Ordinal(other_norm))
                 \/ Crosses(type.upper, ">", FullYears(this_norm, other_norm),
                            Ordinal(this_norm) - Ordinal(other_norm))
    ELSE FALSE

\* DifferenceWithinRange.violates with any in the place of all
violates_any_outside(type, claim, entity) ==
    IF claim.snaktype # "value" THEN FALSE
    ELSE IF entity.claims[type.prop] = <<>> THEN FALSE
    ELSE \E i \in 1..Len(entity.claims[type.prop]) :
            /\ entity.claims[type.prop][i].snaktype = "value"
            /\ _outside_range(type, claim.target, entity.claims[type.prop][i].target)

\* DifferenceWithinRange.violates(claim), entity being claim.on_item
violates_within_range(type, claim, entity) ==
    IF claim.snaktype # "value" THEN FALSE
    ELSE IF entity.claims[type.prop] = <<>> THEN FALSE
    ELSE \A i \in 1..Len(entity.claims[type.prop]) :
            entity.claims[type.prop][i].snaktype = "value"
                => _outside_range(type, claim.target,
                                  entity.claims[type.prop][i].target)

Times ==
    {Time(2000, 3, 1, 11), Time(2001, 2, 28, 11), Time(2001, 3, 1, 11),
     Time(2001, 6, 1, 9), Time(-1, 1, 1, 11)}

RangeChoices ==
    {DifferenceWithinRange("P3", NoBound, NoBound),
     DifferenceWithinRange("P3", Bound(0, "Q577"), Bound(1, "Q577")),
     DifferenceWithinRange("P3", Bound(1, "Q577"), NoBound),
     DifferenceWithinRange("P3", NoBound, Bound(0, "Q577")),
     DifferenceWithinRange("P3", Bound(365, "Q573"), Bound(366, "Q573")),
     DifferenceWithinRange("P3", Bound(31536000, "Q11574"), Bound(1, "1"))}

TimeClaim(snak, p, time) ==
    IF time = NoTarget THEN MkClaim(snak, p, "novalue", NoTarget, NoQuals, <<>>, FALSE)
    ELSE MkClaim(snak, p, "value", time, NoQuals, <<>>, FALSE)

\* the entity: its P1 claim and up to MaxOthers claims of P3
RangeRevisions ==
    {MkRevision([p \in Range(MainProps) |->
        IF p = "P1" THEN <<TimeClaim("P1$c1", "P1", this)>>
        ELSE IF p = "P3"
        THEN [i \in 1..Len(others) |->
                TimeClaim(<<"P3$c1", "P3$c2", "P3$c3">>[i], "P3", others[i])]
        ELSE <<>>]) :
        this \in Times \cup {NoTarget},
        others \in SeqsUpTo(Times \cup {NoTarget}, MaxOthers)}

InitRange ==
    /\ pages = PagesFor(0)
    /\ old_rev = NoRevision
    /\ new_rev \in RangeRevisions
    /\ cache = <<>>
    /\ result = NewResult
    /\ dispatched = <<>>
    /\ violated = <<>>
    /\ call = NoCall
    /\ outcome = "idle"
    /\ sparql = "up"
    /\ session = NoSession
    /\ subject = NoSubject

\* DifferenceWithinRange(prop, lower, upper).violates(claim) on the P1 claim
RangeViolates ==
    /\ outcome = "idle"
    /\ \E type \in RangeChoices :
        /\ call' = MkCall("violates", None,
                          MkConstraint("P1", None, type, REGULAR, Scope),
                          MkTarget(MAIN, NoClaim, new_rev.claims["P1"][1],
                                   NoClaim, NoClaim))
        /\ session' = [NoSession EXCEPT
                        !.calls = 1,
                        !.yielded = <<violates_within_range(
                                        type, new_rev.claims["P1"][1], new_rev)>>]
    /\ outcome' = "returned"
    /\ UNCHANGED <<pages, old_rev, new_rev, cache, result, dispatched, violated,
                   sparql, subject>>

NextRange == RangeViolates

SpecRange == InitRange /\ [][NextRange]_vars

-----------------------------------------------------------------------------
(* Qualifier diffs: lines 506-527 of evaluate_atomic_change on the old and *)
(* the new qualifiers of one property                                      *)

MaxMatch == 2       \* qualifiers of the property on either side

MatchValues == QualifierValues \cup {Qual("P2", Quantity(10))}

InitMatch ==
    /\ pages = PagesFor(0)
    /\ old_rev = NoRevision
    /\ new_rev = NoRevision
    /\ cache = <<>>
    /\ result = NewResult
    /\ dispatched = <<>>
    /\ violated = <<>>
    /\ call = NoCall
    /\ outcome = "idle"
    /\ sparql = "up"
    /\ session = NoSession
    /\ subject = NoSubject

\* the added and removed lists built for one qualifier property
MatchQualifiers ==
    /\ outcome = "idle"
    /\ \E old_qualifiers \in SeqsUpTo(MatchValues, MaxMatch),
          new_qualifiers \in SeqsUpTo(MatchValues, MaxMatch) :
        /\ call' = StoreCall("evaluate_atomic_change", "P2", {}, {})
                    @@ [old_qualifiers |-> old_qualifiers,
                        new_qualifiers |-> new_qualifiers]
        /\ session' = [NoSession EXCEPT
                        !.calls = 1,
                        !.yielded = [added |-> QualifiersAdded(old_qualifiers,
                                                               new_qualifiers),
                                     removed |-> QualifiersRemoved(old_qualifiers,
                                                                   new_qualifiers)]]
    /\ outcome' = "returned"
    /\ UNCHANGED <<pages, old_rev, new_rev, cache, result, dispatched, violated,
                   sparql, subject>>

NextMatch == MatchQualifiers

SpecMatch == InitMatch /\ [][NextMatch]_vars

-----------------------------------------------------------------------------
(* Complementary predicates: OneOf and NoneOf on a claim, ItemRequires and *)
(* ConflictsWith on a revision, built with the same arguments.  The claims *)
(* are item-valued or non-value snaks: in_values calls getID() on the      *)
(* target, which only entities have.                                       *)

MaxLaw == 2         \* claims of the property on the revision

LawValues == SUBSET {"Q1", "Q2", "novalue"}

LawClaims ==
    {MkClaim("P3$c1", "P3", "value", Item(q), NoQuals, <<>>, FALSE) : q \in {"Q1", "Q2"}}
    \cup {MkClaim("P3$c1", "P3", st, NoTarget, NoQuals, <<>>, FALSE) :
            st \in {"novalue", "somevalue"}}

LawRevisions ==
    {MkRevision([p \in Range(MainProps) |-> IF p = "P3" THEN list ELSE <<>>]) :
        list \in SeqsUpTo(LawClaims, MaxLaw)}

NoLaw == [values |-> {}, given |-> FALSE, claim |-> NoClaim, first |-> None,
          second |-> None]

InitLaws ==
    /\ pages = PagesFor(0)
    /\ old_rev = NoRevision
    /\ new_rev = NoRevision
    /\ cache = <<>>
    /\ result = NewResult
    /\ dispatched = <<>>
    /\ violated = <<>>
    /\ call = NoCall
    /\ outcome = "idle"
    /\ sparql = "up"
    /\ session = NoLaw
    /\ subject = NoSubject

\* OneOf(values).violates(claim) and NoneOf(values).violates(claim)
ClaimPredicates ==
    /\ outcome = "idle"
    /\ \E values \in LawValues, claim \in LawClaims :
        /\ call' = StoreCall("violates", "P3", {}, {})
        /\ session' = [values |-> values, given |-> TRUE, claim |-> claim,
                       first |-> violates(OneOf(values), claim),
                       second |-> violates(NoneOf(values), claim)]
    /\ outcome' = "returned"
    /\ UNCHANGED <<pages, old_rev, new_rev, cache, result, dispatched, violated,
                   sparql, subject>>

\* ConflictsWith(prop, values).satisfied(rev) and ItemRequires(prop,
\* values).satisfied(rev); given = FALSE is the call without values
ItemPredicates ==
    /\ outcome = "idle"
    /\ \E values \in LawValues, given \in BOOLEAN, rev \in LawRevisions :
        /\ given \/ values = {}
        /\ call' = StoreCall("satisfied", "P3", {}, {})
        /\ new_rev' = rev
        /\ session' = [values |-> values, given |-> given, claim |-> NoClaim,
                       first |-> satisfied(MkType("ConflictsWith", values, given, "P3"),
                                           rev),
                       second |-> satisfied(MkType("ItemRequires", values, given, "P3"),
                                            rev)]
    /\ outcome' = "returned"
    /\ UNCHANGED <<pages, old_rev, cache, result, dispatched, violated,
                   sparql, subject>>

NextLaws == ClaimPredicates \/ ItemPredicates

SpecLaws == InitLaws /\ [][NextLaws]_vars

-----------------------------------------------------------------------------
(* Properties                                                              *)

IsHandlerCall == call.op \in {"handle_addition", "handle_removal", "handle_update"}

\* the context of the handler call made
CallContext == ContextOf(call.target)

\* the score the handler call recorded
Recorded == result.evaluated[Len(result.evaluated)].score

\* the score of the predicate for the call, before weighting and clamping
RawScore ==
    CASE call.op = "handle_addition" ->
            score_for_addition(cache, pages, call.constr.type, CallContext)
      [] call.op = "handle_removal" ->
            score_for_removal(cache, pages, call.constr.type, CallContext)
      [] call.op = "handle_update" ->
            score_for_update(cache, pages, call.constr.type, CallContext)

\* the status the property page declares for a constraint
DeclaredStatus(constr) ==
    IF constr.claim_id = None
    THEN (IF constr.type.name = "LargeChange" THEN "SUGGESTION" ELSE "REGULAR")
    ELSE LET decls == pages[constr.prop].decls
             decl == decls[CHOOSE i \in 1..Len(decls) : decls[i].snak = constr.claim_id]
         IN IF DQ("Q21502408") \in Range(decl.P2316) THEN "MANDATORY"
            ELSE IF DQ("Q62026391") \in Range(decl.P2316) THEN "SUGGESTION"
            ELSE "REGULAR"

StatusWeight(name) ==
    CASE name = "SUGGESTION" -> 1
      [] name = "REGULAR" -> 2
      [] name = "MANDATORY" -> 4

\* the side of the call's context the predicate looks at is in violation
Violating(type, side) ==
    IF type.name \in ItemConstraintTypes THEN ~satisfied(type, side.rev)
    ELSE violates(type, side.claim)

\* sum of the scores a Result holds for a constraint
Contribution(res, constr) ==
    SumSeq([i \in 1..Len(res.evaluated) |->
              IF res.evaluated[i].constraint = constr THEN res.evaluated[i].score
              ELSE 0])

\* C1: Idempotence: evaluate_change(rev, rev) returns a Result whose score is
\* 0 and whose evaluated list is empty.
C1_Idempotence ==
    (call.op = "evaluate_change" /\ old_rev = new_rev) =>
        /\ outcome = "returned"
        /\ result.score = 0
        /\ result.evaluated = <<>>

\* C2: Symmetry law: a constraint that is not SUGGESTION and whose predicate
\* needs a value change contributes to evaluate_change(new, old) the negation
\* of what it contributes to evaluate_change(old, new).
C2_Symmetry ==
    (call.op = "evaluate_change" /\ call.current = "none") =>
        \A back \in {evaluate_change(<<>>, pages, new_rev, old_rev, NoRevision)} :
           /\ outcome = "returned"
           /\ back.raised = None
           /\ \A e \in Range(result.evaluated) \cup Range(back.res.evaluated) :
                (e.constraint.status # SUGGESTION
                 /\ value_change_needed(e.constraint.type)) =>
                    Contribution(back.res, e.constraint)
                        = -Contribution(result, e.constraint)

\* C3: Entity parity: if evaluate_entity(new_rev) returns an empty list, the
\* Result of evaluate_change(old_rev, new_rev) has no entry with score > 0.
C3_EntityParity ==
    (/\ call.op = "evaluate_change"
     /\ evaluate_entity(<<>>, pages, new_rev).violated = <<>>) =>
        /\ outcome = "returned"
        /\ get_violated_constraints(result) = <<>>

\* C4: evaluate_change completes and returns a Result: every Context it
\* builds is a well-formed pair, so building it does not raise.
C4_ContextsWellFormed ==
    call.op = "evaluate_change" => outcome = "returned"

\* C5: Scope filter: every constraint evaluate_change or evaluate_entity
\* dispatches at a scope has that scope in constraint.scopes and in the
\* intrinsic scopes of its predicate.
C5_ScopeFilter ==
    call.op \in {"evaluate_change", "evaluate_entity"} =>
        \A i \in 1..Len(dispatched) :
            /\ dispatched[i].scope \in dispatched[i].constraint.scopes
            /\ dispatched[i].scope \in TypeScopes(dispatched[i].constraint.type)

\* C6: The status weight (SUGGESTION 1, REGULAR 2, MANDATORY 4) multiplies the
\* raw score on handle_update only; handle_addition and handle_removal record
\* the predicate's score without it (a SUGGESTION addition is clamped, C7).
C6_StatusWeightOnUpdatesOnly ==
    IsHandlerCall =>
        /\ Len(result.evaluated) = 1
        /\ result.evaluated[1].constraint = call.constr
        /\ Recorded =
            CASE call.op = "handle_update" ->
                    RawScore * StatusWeight(DeclaredStatus(call.constr))
              [] call.op = "handle_removal" -> RawScore
              [] call.op = "handle_addition" ->
                    IF DeclaredStatus(call.constr) = "SUGGESTION"
                    THEN Min(0, RawScore) ELSE RawScore

C6_Witness ==
    /\ call.op = "handle_update"
    /\ DeclaredStatus(call.constr) = "MANDATORY"
    /\ RawScore = 1
    /\ Recorded = 4

\* C7: Suggestion clamp: for a SUGGESTION constraint handle_addition records
\* min(0, score): a violating addition records 0, never a positive score;
\* handle_removal of a violating claim still records -1.
C7_SuggestionClamp ==
    (IsHandlerCall /\ DeclaredStatus(call.constr) = "SUGGESTION") =>
        /\ call.op = "handle_addition" =>
                /\ Recorded = Min(0, RawScore)
                /\ Recorded <= 0
                /\ Violating(call.constr.type, CallContext.new) => Recorded = 0
        /\ (call.op = "handle_removal"
            /\ Violating(call.constr.type, CallContext.old)) => Recorded = -1

C7_Witness ==
    /\ call.op = "handle_addition"
    /\ DeclaredStatus(call.constr) = "SUGGESTION"
    /\ Violating(call.constr.type, CallContext.new)
    /\ RawScore = 1
    /\ Recorded = 0

\* C8 as stated: raw scores of a claim-level predicate are in {0, 1} for an
\* addition, {-1, 0} for a removal and {-1, 0, 1} for an update, except that
\* those of HasValidReference and LargeChange are non-negative integers.
C8_ScoreBoundsAsStated ==
    (IsHandlerCall /\ IsClaimConstraintType(call.constr.type)) =>
        IF call.constr.type.name \in {"HasValidReference", "LargeChange"}
        THEN RawScore >= 0
        ELSE CASE call.op = "handle_addition" -> RawScore \in {0, 1}
               [] call.op = "handle_removal" -> RawScore \in {-1, 0}
               [] call.op = "handle_update" -> RawScore \in {-1, 0, 1}

\* C8 amended: as stated, except that HasValidReference scores an addition
\* with minus the count of the new claim's valid references (never positive),
\* a removal with the count of the old claim's (never negative), and an update
\* with the old count or the old count minus the new count, which is negative
\* when valid references were added; LargeChange is a non-negative integer.
C8_ScoreBounds ==
    (IsHandlerCall /\ IsClaimConstraintType(call.constr.type)) =>
        LET old_count == _count_valid_references(cache, pages, CallContext.old.claim)
            new_count == _count_valid_references(cache, pages, CallContext.new.claim)
        IN IF call.constr.type.name = "HasValidReference"
           THEN CASE call.op = "handle_addition" ->
                        RawScore = -new_count /\ RawScore <= 0
                  [] call.op = "handle_removal" ->
                        RawScore = old_count /\ RawScore >= 0
                  [] call.op = "handle_update" ->
                        RawScore \in {old_count, old_count - new_count}
           ELSE IF call.constr.type.name = "LargeChange"
           THEN RawScore >= 0
           ELSE CASE call.op = "handle_addition" -> RawScore \in {0, 1}
                  [] call.op = "handle_removal" -> RawScore \in {-1, 0}
                  [] call.op = "handle_update" -> RawScore \in {-1, 0, 1}

C8_Witness ==
    /\ call.op = "handle_addition"
    /\ call.constr.type.name = "HasValidReference"
    /\ Len(call.target.new_claim.sources) > 0
    /\ RawScore < 0
    /\ Recorded < 0

\* C9: Qualifiers scenario: a claim updated from no qualifiers to a qualifier
\* whose property is not allowed, its value unchanged, makes evaluate_change
\* record +1 for the Qualifiers constraint of the property.
QualifiersScenario ==
    /\ Len(old_rev.claims["P1"]) = 1
    /\ Len(new_rev.claims["P1"]) = 1
    /\ QualKeys(old_rev.claims["P1"][1]) = {}
    /\ QualKeys(new_rev.claims["P1"][1]) = {"P2"}
    /\ cmp_key(old_rev.claims["P1"][1]) = cmp_key(new_rev.claims["P1"][1])

C9_QualifiersScenario ==
    (call.op = "evaluate_change" /\ call.current = "none" /\ QualifiersScenario) =>
        /\ outcome = "returned"
        /\ \E i \in 1..Len(result.evaluated) :
                result.evaluated[i].constraint.type.name = "Qualifiers"
        /\ \A i \in 1..Len(result.evaluated) :
                result.evaluated[i].constraint.type.name = "Qualifiers"
                    => result.evaluated[i].score = 1

\* the constraints of the entries whose score has the given sign
RECURSIVE ConstraintsOfSign(_, _)
ConstraintsOfSign(entries, sign) ==
    IF entries = <<>> THEN <<>>
    ELSE (IF Head(entries).score * sign > 0 THEN <<Head(entries).constraint>>
          ELSE <<>>)
         \o ConstraintsOfSign(Tail(entries), sign)

\* C10: After any sequence of Result.add calls, score is the sum of the
\* scores of the entries; get_violated_constraints returns exactly the
\* constraints of the entries with score > 0, get_fixed_constraints those with
\* score < 0, and an entry with score 0 is in neither list.
C10_ResultAccounting ==
    LET zeros == {i \in 1..Len(result.evaluated) : result.evaluated[i].score = 0} IN
    /\ result.score = SumSeq([i \in 1..Len(result.evaluated) |->
                                result.evaluated[i].score])
    /\ get_violated_constraints(result) = ConstraintsOfSign(result.evaluated, 1)
    /\ get_fixed_constraints(result) = ConstraintsOfSign(result.evaluated, -1)
    /\ Len(get_violated_constraints(result)) + Len(get_fixed_constraints(result))
         + Cardinality(zeros) = Len(result.evaluated)

C10_Witness ==
    /\ call.op = "add"
    /\ Len(result.evaluated) = 3
    /\ result.evaluated[1].score > 0
    /\ result.evaluated[2].score = 0
    /\ result.evaluated[3].score < 0
    /\ result.score # result.evaluated[3].score
    /\ Len(get_violated_constraints(result)) = 1
    /\ Len(get_fixed_constraints(result)) = 1

\* the atoms evaluate_change iterates over
Atoms == claim_differences(old_rev, new_rev)

\* the revision passed as current
Current == Rev(call.current)

StillPresent(atom) == ~IsNone(atom[1]) /\ item_has_claim(Current, atom[1])

NewPropertyAbsent(atom) ==
    ~IsNone(atom[2]) /\ atom[2].prop \notin ClaimKeys(Current)

\* C11 as stated: with current supplied, evaluate_change skips a diff atom
\* exactly when its old claim is still present in current, or it has a new
\* claim (update or addition) whose property is absent from current's claims.
C11_SkipRuleAsStated ==
    (call.op = "evaluate_change" /\ call.current # "none") =>
        \A i \in 1..Len(Atoms) :
            SkipAtom(Current, Atoms[i][1], Atoms[i][2])
                <=> (StillPresent(Atoms[i]) \/ NewPropertyAbsent(Atoms[i]))

\* C11 amended: with current supplied, evaluate_change skips a diff atom
\* exactly when its old claim is still present in current, or it is an
\* addition (no old claim) whose property is absent from current's claims; an
\* update whose property is absent from current is not skipped.  A skipped
\* atom gets no context and no dispatch: the call passes it, and it reaches
\* line 577 exactly when every atom is skipped.
C11_CurrentSkipRule ==
    (call.op = "evaluate_change" /\ call.current # "none") =>
        \A E \in {evaluate_change(cache, pages, old_rev, new_rev, Current)} :
            /\ \A i \in 1..Len(Atoms) :
                SkipAtom(Current, Atoms[i][1], Atoms[i][2])
                    <=> \/ StillPresent(Atoms[i])
                        \/ IsNone(Atoms[i][1]) /\ NewPropertyAbsent(Atoms[i])
            /\ E.line = 577
                <=> \A i \in 1..Len(Atoms) :
                        \/ StillPresent(Atoms[i])
                        \/ IsNone(Atoms[i][1]) /\ NewPropertyAbsent(Atoms[i])
            /\ E.touched = {}
            /\ dispatched = <<>>

C11_Witness ==
    /\ call.op = "evaluate_change"
    /\ call.current = "bare"
    /\ outcome = "TypeError"
    /\ \E i \in 1..Len(Atoms) :
            /\ ~IsNone(Atoms[i][1])
            /\ NewPropertyAbsent(Atoms[i])
            /\ ~SkipAtom(Current, Atoms[i][1], Atoms[i][2])
    /\ \E i \in 1..Len(Atoms) :
            /\ IsNone(Atoms[i][1])
            /\ SkipAtom(Current, Atoms[i][1], Atoms[i][2])

\* the properties evaluate_change hands to get_item_constraints (line 595)
CommonProps == ClaimKeys(old_rev) \cap ClaimKeys(new_rev)

StoreCallStep == session'.calls = session.calls + 1

\* C13: Store caching: get_constraints(prop) loads the property's constraints
\* only if prop has no cache entry; a cached entry stays, unchanged and not
\* reloaded, across get_constraints, get_item_constraints and evaluation
\* calls until purge(prop); purge(prop) removes prop's entry only (a no-op if
\* absent), and the next get_constraints(prop) loads again.
C13_StoreCaching ==
    [][StoreCallStep =>
        /\ \A p \in DOMAIN cache :
            IF call'.op = "purge" /\ call'.prop = p
            THEN p \notin DOMAIN cache'
            ELSE /\ p \in DOMAIN cache'
                 /\ cache'[p] = cache[p]
                 /\ p \notin session'.loads
        /\ call'.op = "purge" =>
            /\ DOMAIN cache' = DOMAIN cache \ {call'.prop}
            /\ session'.loads = {}
        /\ call'.op = "get_constraints" =>
            /\ session'.loads = {call'.prop} \ DOMAIN cache
            /\ DOMAIN cache' = DOMAIN cache \cup {call'.prop}
            /\ cache'[call'.prop] = load_constraints(pages[call'.prop])
            /\ session'.yielded = cache'[call'.prop]
      ]_vars

\* P1 is loaded again by get_constraints after it was purged, P2 staying
\* cached all the while
C13_Witness ==
    /\ call.op = "get_constraints"
    /\ call.prop = "P1"
    /\ "P1" \in session.purged
    /\ session.loads = {"P1"}
    /\ "P2" \in session.before
    /\ {"P1", "P2"} \subseteq DOMAIN cache

\* the positions of the constraints of a predicate class in a list
OfType(list, name) == {i \in 1..Len(list) : list[i].type.name = name}

\* C14: Whatever P2302 declarations the page has and however many were
\* skipped, the list load_constraints caches for a property holds exactly one
\* HasValidReference constraint (REGULAR, scopes {MAIN}), NoLinksToDisambiguation
\* and NoSelfLink exactly when the property is item-typed, and a LargeChange
\* constraint of status SUGGESTION exactly when it is quantity-typed.
C14_SynthesizedConstraints ==
    \A p \in DOMAIN cache :
        \A list \in {cache[p]} :
            /\ Cardinality(OfType(list, "HasValidReference")) = 1
            /\ \A i \in OfType(list, "HasValidReference") :
                    list[i].status = REGULAR /\ list[i].scopes = {MAIN}
            /\ OfType(list, "NoLinksToDisambiguation") # {}
                    <=> pages[p].type = "wikibase-item"
            /\ OfType(list, "NoSelfLink") # {}
                    <=> pages[p].type = "wikibase-item"
            /\ (\E i \in OfType(list, "LargeChange") : list[i].status = SUGGESTION)
                    <=> pages[p].type = "quantity"
            /\ \A i \in OfType(list, "LargeChange") : list[i].status = SUGGESTION

\* an item-typed, a quantity-typed and a string-typed property are loaded, the
\* last two with a skipped declaration each
C14_Witness ==
    /\ {"P1", "P2", "P5"} \subseteq DOMAIN cache
    /\ {"P1", "P2", "P5"} \cap session.loads # {}
    /\ Len(cache["P2"]) = 2
    /\ Len(pages["P2"].decls) = 1
    /\ Len(cache["P5"]) = 2
    /\ Len(pages["P5"].decls) = 2
    /\ Len(cache["P1"]) = 4

\* how often a constraint occurs in a list
Occurrences(list, constr) == Cardinality({i \in 1..Len(list) : list[i] = constr})

\* every constraint the property pages declare
PageConstraints == UNION {Range(pages[p].constraints) : p \in DOMAIN pages}

\* the main claims of the entity a MAIN-scope claim-level constraint is
\* violated by
ViolatingClaims(entity, constr) ==
    IF /\ IsClaimConstraintType(constr.type)
       /\ may_check(constr, MAIN)
       /\ constr.prop \in Range(MainProps)
    THEN {i \in 1..Len(entity.claims[constr.prop]) :
            violates(constr.type, entity.claims[constr.prop][i])}
    ELSE {}

\* the qualifiers (property of the claim, claim, position) a QUALIFIER-scope
\* claim-level constraint is violated by
ViolatingQualifiers(entity, constr) ==
    IF /\ IsClaimConstraintType(constr.type)
       /\ may_check(constr, QUALIFIER)
       /\ constr.prop \in Range(QualProps)
    THEN {t \in Range(MainProps) \X (1..2) \X (1..(MaxQuals + 1)) :
            /\ t[2] <= Len(entity.claims[t[1]])
            /\ t[3] <= Len(entity.claims[t[1]][t[2]].qualifiers[constr.prop])
            /\ violates(constr.type,
                        entity.claims[t[1]][t[2]].qualifiers[constr.prop][t[3]])}
    ELSE {}

\* C15: evaluate_entity(entity) returns a claim-level constraint once for
\* every main claim (MAIN scope) and every qualifier (QUALIFIER scope) of its
\* property that violates it, and an entity-level constraint yielded by
\* get_item_constraints exactly when its satisfied(entity) is false; it
\* returns nothing else.
C15_EntityCheckExact ==
    call.op = "evaluate_entity" =>
        \A entity \in {Rev(call.current)} :
        \A yielded \in {get_item_constraints(<<>>, pages, ClaimKeys(entity)
                                                \cup EntityFetches(entity),
                                             ClaimKeys(entity), ClaimKeys(entity)).out} :
        \A constr \in PageConstraints \cup Range(violated) :
            Occurrences(violated, constr)
                = Cardinality(ViolatingClaims(entity, constr))
                  + Cardinality(ViolatingQualifiers(entity, constr))
                  + (IF IsClaimConstraintType(constr.type)
                        \/ satisfied(constr.type, entity)
                     THEN 0 ELSE Occurrences(yielded, constr))

\* the constraints of a predicate class the pages of props declare
Declared(props, names) ==
    {constr \in UNION {Range(pages[p].constraints) : p \in props} :
        constr.type.name \in names}

\* C16: get_item_constraints(props, changed) yields every ItemRequires,
\* ConflictsWith, LabelInLanguage and DescriptionInLanguage constraint of the
\* properties in props, and their SubjectType constraints exactly when
\* changed contains P31 or P279, cached before or not; every discovery query
\* it sends for a variant selects the uncached properties that declare a
\* constraint of that variant.
C16_ItemConstraintsDiscovery ==
    (/\ call.op = "get_item_constraints"
     /\ \A i \in 1..Len(session.queries) : ~session.queries[i].failed) =>
        /\ Range(session.yielded)
            = Declared(call.props,
                       {"ItemRequires", "ConflictsWith", "LabelInLanguage",
                        "DescriptionInLanguage"}
                       \cup (IF call.changed \cap {"P31", "P279"} # {}
                             THEN {"SubjectType"} ELSE {}))
        /\ \A i \in 1..Len(session.queries) :
            \A query \in {session.queries[i]} :
                query.found = {p \in query.left : Declared({p}, {query.type}) # {}}

\* the pairs stored in the cache of a property's SubjectType and since evicted
Evicted(prop) == subject.stored[prop] \ keys(subject._cache[prop])

\* C17: SubjectType cache hit: two successive satisfied evaluations of a
\* SubjectType that reference the same (base, class) pairs send at most one
\* select query, the second being answered from the cache; the cache keeps up
\* to 1,000 pairs, the eldest being evicted only once that many distinct
\* pairs have been stored.
C17_SubjectTypeCache ==
    call.op = "satisfied" =>
        /\ (/\ subject.prev.prop = subject.last.prop
            /\ subject.prev.cross = subject.last.cross
            /\ ~subject.prev.failed) =>
                ~(subject.prev.queried /\ subject.last.queried)
        /\ \A prop \in SubjectProps :
            /\ Len(subject._cache[prop].items) <= 1000
            /\ Evicted(prop) # {} => Cardinality(subject.stored[prop]) >= 1000

\* C18: All SubjectType predicates a store creates use one and the same
\* (base, class) cache owned by the store: their caches hold the same
\* entries, and pairs cached through the SubjectType constraint of one
\* property are a cache hit (no query) for that of another property.
C18_SharedSubjectTypeCache ==
    call.op = "satisfied" =>
        /\ \A p, q \in SubjectProps : subject._cache[p] = subject._cache[q]
        /\ (/\ subject.prev.prop \in SubjectProps \ {subject.last.prop}
            /\ subject.prev.cross = subject.last.cross
            /\ subject.prev.queried
            /\ ~subject.prev.failed) => ~subject.last.queried

\* the snak ids of the claims of a property in a revision
Ids(rev, p) == {rev.claims[p][i].snak : i \in 1..Len(rev.claims[p])}

\* the atoms about the claim of a property with a snak id
AtomsFor(atoms, p, key) ==
    {i \in 1..Len(atoms) :
        \E side \in 1..2 : atoms[i][side].prop = p /\ atoms[i][side].snak = key}

DiffersBesidesRank(old_claim, new_claim) ==
    \/ old_claim.snaktype # new_claim.snaktype
    \/ old_claim.target # new_claim.target
    \/ old_claim.qualifiers # new_claim.qualifiers
    \/ old_claim.sources # new_claim.sources

\* C19: claim_differences(old, new) yields, for every property and every claim
\* id of either revision, at most one atom: (old_claim, None) when only old
\* has the id, (None, new_claim) when only new has it, and (old_claim,
\* new_claim) exactly when both have it and differ in snak type, value,
\* qualifiers or references; a pair differing only in rank, or not at all,
\* yields no atom, and no other atom is yielded.
C19_ClaimDifferences ==
    call.op = "claim_differences" =>
        \A atoms \in {session.yielded} :
            /\ \A p \in Range(MainProps) :
                \A key \in Ids(old_rev, p) \cup Ids(new_rev, p) :
                    \A old_claim \in {ById(old_rev.claims[p], key)},
                       new_claim \in {ById(new_rev.claims[p], key)} :
                        /\ Cardinality(AtomsFor(atoms, p, key)) <= 1
                        /\ \A i \in AtomsFor(atoms, p, key) :
                                atoms[i] = <<old_claim, new_claim>>
                        /\ AtomsFor(atoms, p, key) # {}
                            <=> \/ IsNone(old_claim)
                                \/ IsNone(new_claim)
                                \/ DiffersBesidesRank(old_claim, new_claim)
            /\ \A i \in 1..Len(atoms) :
                \E p \in Range(MainProps) :
                    \E key \in Ids(old_rev, p) \cup Ids(new_rev, p) :
                        i \in AtomsFor(atoms, p, key)

\* P1$c1 differs in rank only and yields no atom; the added P1$c2 and the
\* removed P2$c1 yield one atom each
C19_Witness ==
    /\ call.op = "claim_differences"
    /\ Len(old_rev.claims["P1"]) = 1
    /\ Len(new_rev.claims["P1"]) = 2
    /\ old_rev.claims["P1"][1].rank # new_rev.claims["P1"][1].rank
    /\ ~DiffersBesidesRank(old_rev.claims["P1"][1], new_rev.claims["P1"][1])
    /\ session.yielded = <<<<NoClaim, SecondClaim>>, <<QuantityClaim, NoClaim>>>>

\* the calls of a handler on a QUALIFIER-scope constraint in the dispatch log
QualifierCalls(constr, handler) ==
    Cardinality({i \in 1..Len(dispatched) :
                    dispatched[i] = LogEntry(constr, QUALIFIER, handler)})

\* old qualifiers with no new qualifier of the same cmp_key
UnmatchedOld(old_qualifiers, new_qualifiers) ==
    {i \in 1..Len(old_qualifiers) :
        \A j \in 1..Len(new_qualifiers) :
            cmp_key(old_qualifiers[i]) # cmp_key(new_qualifiers[j])}

\* new qualifiers that are the first match of no old qualifier
UnmatchedNew(old_qualifiers, new_qualifiers) ==
    {j \in 1..Len(new_qualifiers) :
        \A i \in 1..Len(old_qualifiers) :
            \/ cmp_key(old_qualifiers[i]) # cmp_key(new_qualifiers[j])
            \/ \E k \in 1..(j - 1) :
                    cmp_key(old_qualifiers[i]) = cmp_key(new_qualifiers[k])}

\* C20: in evaluate_atomic_change on an updated claim pair, per qualifier
\* property, the qualifiers are matched by cmp_key (first match wins); every
\* QUALIFIER-scope constraint of the property gets one handle_removal per
\* unmatched old qualifier and one handle_addition per unmatched new
\* qualifier, or a single handle_update instead when exactly one of each is
\* unmatched, and nothing when nothing is unmatched; the call returns.
C20_QualifierDiffDispatch ==
    (/\ call.op = "evaluate_atomic_change"
     /\ ~IsNone(call.target.old_claim)
     /\ ~IsNone(call.target.new_claim)) =>
        /\ outcome = "returned"
        /\ \A key \in Range(QualProps) :
            \A removed \in {UnmatchedOld(call.target.old_claim.qualifiers[key],
                                         call.target.new_claim.qualifiers[key])},
               added \in {UnmatchedNew(call.target.old_claim.qualifiers[key],
                                       call.target.new_claim.qualifiers[key])} :
                \A constr \in Range(get_constraints(cache, pages, key,
                                        {"ClaimConstraintType"}, QUALIFIER)) :
                    IF Cardinality(removed) = 1 /\ Cardinality(added) = 1
                    THEN /\ QualifierCalls(constr, "handle_update") = 1
                         /\ QualifierCalls(constr, "handle_addition") = 0
                         /\ QualifierCalls(constr, "handle_removal") = 0
                    ELSE /\ QualifierCalls(constr, "handle_update") = 0
                         /\ QualifierCalls(constr, "handle_addition") = Cardinality(added)
                         /\ QualifierCalls(constr, "handle_removal") = Cardinality(removed)

\* the entry of a MAIN-scope handle_update of the constraint is in the log
UpdateDispatched(constr) ==
    \E i \in 1..Len(dispatched) : dispatched[i] = LogEntry(constr, MAIN, "handle_update")

UpdateCall ==
    /\ call.op = "evaluate_atomic_change"
    /\ ~IsNone(call.target.old_claim)
    /\ ~IsNone(call.target.new_claim)

\* C21: on an update atom of a main claim, a MAIN-scope claim-level
\* constraint of the property receives handle_update if and only if it is a
\* Qualifiers or RequiredQualifiers constraint (value_change_needed false) or
\* the cmp_key of the claim differs between old and new.
C21_UpdateNeedsValueChange ==
    UpdateCall =>
        \A constr \in Range(get_constraints(cache, pages, call.target.new_claim.prop,
                                            {"ClaimConstraintType"}, MAIN)) :
            UpdateDispatched(constr)
                <=> \/ constr.type.name \in {"Qualifiers", "RequiredQualifiers"}
                    \/ cmp_key(call.target.old_claim) # cmp_key(call.target.new_claim)

\* an update that changed the qualifiers and the references only: of the
\* constraints of P1, Qualifiers alone receives handle_update
C21_Witness ==
    /\ UpdateCall
    /\ cmp_key(call.target.old_claim) = cmp_key(call.target.new_claim)
    /\ call.target.old_claim.qualifiers # call.target.new_claim.qualifiers
    /\ call.target.old_claim.sources # call.target.new_claim.sources
    /\ Len(dispatched) = 1
    /\ dispatched[1].constraint.type.name = "Qualifiers"
    /\ \E constr \in Range(get_constraints(cache, pages, "P1",
                                           {"ClaimConstraintType"}, MAIN)) :
            constr.type.name = "HasValidReference"

\* the atoms the call evaluated: the differences of the revisions, or the
\* pair handed to evaluate_atomic_change
AtomsEvaluated ==
    IF call.op = "evaluate_change" THEN claim_differences(old_rev, new_rev)
    ELSE <<<<call.target.old_claim, call.target.new_claim>>>>

AtomProp(atom) == IF IsNone(atom[1]) THEN atom[2].prop ELSE atom[1].prop

\* the score the claim gives a HasValidReference constraint for an atom
ReferenceScore(constr, atom) ==
    LET old_count == _count_valid_references(cache, pages, atom[1])
        new_count == _count_valid_references(cache, pages, atom[2])
    IN IF AtomProp(atom) # constr.prop THEN 0
       ELSE IF IsNone(atom[1]) THEN -new_count
       ELSE IF IsNone(atom[2]) THEN old_count
       ELSE IF cmp_key(atom[1]) # cmp_key(atom[2]) /\ atom[1].sources = atom[2].sources
       THEN old_count * constr.status
       ELSE (old_count - new_count) * constr.status

\* C22: HasValidReference in evaluate_change (and in the evaluate_atomic_change
\* it runs per atom): an added claim scores minus its count of valid
\* reference blocks, a removed claim plus its count, an updated claim whose
\* value changed while its sources did not the old count, and every other
\* update, one that changed only the references included, the old count
\* minus the new count, updates weighted by the status.
C22_ReferenceScoring ==
    ((call.op = "evaluate_change" /\ call.current = "none")
     \/ call.op = "evaluate_atomic_change") =>
        \A p \in {"P1", "P2"} :
            \A constr \in {MkConstraint(p, None, HasValidReference, REGULAR, {MAIN})} :
                Contribution(result, constr)
                    = SumSeq([i \in 1..Len(AtomsEvaluated) |->
                                ReferenceScore(constr, AtomsEvaluated[i])])

\* the PropertyScope declarations of a property that name a scope
ScopeDeclarations(p) ==
    {i \in 1..Len(pages[p].decls) :
        /\ pages[p].decls[i].target = "Q53869507"
        /\ pages[p].decls[i].rank # "deprecated"
        /\ TargetIds(pages[p].decls[i].P5314)
                \cap {"Q54828448", "Q54828449", "Q54828450"} # {}}

DeclAllowsReference(p, i) == "Q54828450" \in TargetIds(pages[p].decls[i].P5314)

ReferenceCall == call.op = "_is_valid_reference"

\* C23 as stated: a reference block is valid if and only if it contains a
\* property that is not blacklisted and has a PropertyScope constraint
\* allowing REFERENCE.
C23_ValidReferenceAsStated ==
    ReferenceCall =>
        (session.yielded[1]
            <=> \E k \in 1..Len(call.reference) :
                    /\ call.reference[k] \notin {"P143", "P813", "P887", "P3452", "P4656"}
                    /\ \E i \in ScopeDeclarations(call.reference[k]) :
                            DeclAllowsReference(call.reference[k], i))

\* C23 amended: a reference block is valid if and only if it contains a
\* property that is not blacklisted and all of whose PropertyScope
\* constraints allow REFERENCE, a property without any PropertyScope
\* constraint included.
C23_ValidReference ==
    ReferenceCall =>
        (session.yielded[1]
            <=> \E k \in 1..Len(call.reference) :
                    /\ call.reference[k] \notin {"P143", "P813", "P887", "P3452", "P4656"}
                    /\ \A i \in ScopeDeclarations(call.reference[k]) :
                            DeclAllowsReference(call.reference[k], i))

\* the block [P143, P248] is valid although P248 has no PropertyScope
\* constraint and P143 is blacklisted
C23_Witness ==
    /\ ReferenceCall
    /\ call.reference = <<"P143", "P248">>
    /\ pages["P248"].decls = <<>>
    /\ session.yielded = <<TRUE>>
    /\ DOMAIN cache = {"P248"}

\* the call resolved the claim's target and found no page at the end
TargetNotFound ==
    /\ call.op = "violates"
    /\ outcome = "returned"
    /\ call.target.new_claim.target.kind = "item"
    /\ session.world[session.target].kind = "missing"

\* C24: Target-not-found: when resolving the entity a claim points to fails
\* with "no page", ValueRequires, Symmetric and Inverse return violated =
\* true and NoLinksToDisambiguation returns violated = false; the error does
\* not escape from any of them.
C24_TargetNotFound ==
    /\ outcome \in {"idle", "resolving", "returned"}
    /\ TargetNotFound =>
        session.out = (call.constr.type.name \in {"ValueRequires", "Symmetric", "Inverse"})
    /\ (TargetNotFound /\ call.constr.type.name = "NoLinksToDisambiguation") =>
        session.out = FALSE

\* Symmetric on a claim whose target redirects to an id without a page
C24_Witness ==
    /\ TargetNotFound
    /\ call.constr.type.name = "Symmetric"
    /\ session.hops # {}
    /\ session.out = TRUE

\* C29: resolve_target_entity eventually terminates for every target: once a
\* predicate has called it, the call returns (with an entity or with "no
\* page"), a redirect chain that cycles included.
C29_ResolveTerminates == (outcome = "resolving") ~> (outcome = "returned")

\* the cached key that was read or written longest ago, by the order of use
\* before the last call
LeastRecentlyUsed ==
    LET cached == keys(subject.prev)
        before == SelectSeq(subject.used, LAMBDA k : k # subject.key)
    IN CHOOSE k \in cached :
            \A other \in cached \ {k} :
                \E i, j \in 1..Len(before) :
                    before[i] = k /\ before[j] = other /\ i < j

ValueOf(lru, key) == (CHOOSE e \in Range(lru.items) : e.key = key).val

Overflows ==
    /\ subject.op = "set"
    /\ subject.key \notin keys(subject.prev)
    /\ Len(subject.prev.items) = subject.prev.limit

\* C25: LRUCache with limit L: after any sequence of has, get and set calls
\* the cache holds at most L keys; get(k) and set(k, v) make k the most
\* recently used key; a set that pushes the size over L evicts the key least
\* recently read or written and never the key just set, any other set evicts
\* nothing; get and has do not change the contents, has not the recency.
C25_LRUCache ==
    /\ Len(subject.lru.items) <= subject.lru.limit
    /\ subject.op \in {"get", "set"} =>
        subject.lru.items[Len(subject.lru.items)].key = subject.key
    /\ subject.op = "set" =>
        /\ ValueOf(subject.lru, subject.key) = subject.val
        /\ keys(subject.lru)
            = (keys(subject.prev) \cup {subject.key})
              \ (IF Overflows THEN {LeastRecentlyUsed} ELSE {})
        /\ \A k \in keys(subject.lru) \ {subject.key} :
                ValueOf(subject.lru, k) = ValueOf(subject.prev, k)
    /\ subject.op = "get" =>
        /\ Range(subject.lru.items) = Range(subject.prev.items)
        /\ subject.returned = ValueOf(subject.prev, subject.key)
    /\ subject.op = "has" =>
        /\ subject.lru = subject.prev
        /\ subject.returned = (subject.key \in keys(subject.prev))

\* key 1 was set first and read after key 2 was set: setting key 3 in the
\* full cache evicts key 2
C25_Witness ==
    /\ subject.lru.limit = 2
    /\ subject.used = <<2, 1, 3>>
    /\ Overflows
    /\ subject.key = 3
    /\ keys(subject.prev) = {1, 2}
    /\ keys(subject.lru) = {1, 3}

RangeCall == call.op = "violates" /\ call.constr.type.name = "DifferenceWithinRange"

\* the claims of the constraint's property on the entity that have a value
ValuedOthers ==
    {i \in 1..Len(new_rev.claims[call.constr.type.prop]) :
        new_rev.claims[call.constr.type.prop][i].snaktype = "value"}

OutsideAgainst(i) ==
    _outside_range(call.constr.type, call.target.new_claim.target,
                   new_rev.claims[call.constr.type.prop][i].target)

\* C26 as stated: DifferenceWithinRange(prop, lower, upper).violates(claim) is
\* true if and only if the delta between the claim's time and the time of a
\* prop-claim lies outside [lower, upper] for all of the entity's prop-claims.
C26_AllOutsideAsStated ==
    RangeCall => (session.yielded[1] <=> \A i \in ValuedOthers : OutsideAgainst(i))

\* C26 amended: violates(claim) is true if and only if the claim has a value,
\* the entity has at least one prop-claim, and the delta lies outside
\* [lower, upper] against all of the prop-claims that have a value; a claim
\* within range against at least one prop-claim is not violated.
C26_AllOutside ==
    RangeCall =>
        /\ session.yielded[1]
            <=> /\ call.target.new_claim.snaktype = "value"
                /\ new_rev.claims[call.constr.type.prop] # <<>>
                /\ \A i \in ValuedOthers : OutsideAgainst(i)
        /\ (\E i \in ValuedOthers : ~OutsideAgainst(i)) => ~session.yielded[1]

\* the claim is outside the range against one P3 claim and within it against
\* the other: not violated
C26_Witness ==
    /\ RangeCall
    /\ Cardinality(ValuedOthers) = 2
    /\ \E i, j \in ValuedOthers : OutsideAgainst(i) /\ ~OutsideAgainst(j)
    /\ session.yielded = <<FALSE>>

\* C27: qualifier matching is one-to-one: for each qualifier property of an
\* updated claim, the number of old qualifiers minus the number of removals
\* equals the number of new qualifiers minus the number of additions (both
\* count the matched pairs).
C27_OneToOneMatching ==
    (call.op = "evaluate_atomic_change" /\ call.prop = "P2") =>
        Len(call.old_qualifiers) - Len(session.yielded.removed)
            = Len(call.new_qualifiers) - Len(session.yielded.added)

\* C28: Complement laws: OneOf(V).violates(claim) = not
\* NoneOf(V).violates(claim), a non-value snak being tested by its snak-kind
\* literal; ConflictsWith(p, V).satisfied(rev) = not ItemRequires(p,
\* V).satisfied(rev), with ConflictsWith satisfied when rev has no p-claims
\* and not satisfied when it has some and V is absent or empty.
C28_ComplementLaws ==
    /\ call.op = "violates" =>
        /\ session.first = ~session.second
        /\ session.claim.snaktype # "value" =>
                session.second = (session.claim.snaktype \in session.values)
        /\ session.claim.snaktype = "value" =>
                session.second = (session.claim.target.id \in session.values)
    /\ call.op = "satisfied" =>
        /\ session.first = ~session.second
        /\ new_rev.claims["P3"] = <<>> => session.first
        /\ (new_rev.claims["P3"] # <<>> /\ session.values = {}) => ~session.first

\* a revision with P3 claims and a predicate pair built without values
C28_Witness ==
    /\ call.op = "satisfied"
    /\ ~session.given
    /\ Len(new_rev.claims["P3"]) = 2
    /\ new_rev.claims["P3"][1].snaktype = "novalue"
    /\ session.first = FALSE
    /\ session.second = TRUE

====
